---- MODULE Spec2Model ----
(***************************************************************************)
(* DevContext Sync: the browser extension's sync engine (storage.js) and   *)
(* the backend's push/pull routes (backend/src/routes/sync.ts).            *)
(*                                                                         *)
(* The specifications of this module share its variables:                  *)
(*   Spec        the client's sync engine: local store, sync queue,        *)
(*               settings, the two callers of a sync cycle (auto-sync      *)
(*               timer, FORCE_SYNC) and one local writer, stepped at their *)
(*               await points, against a server with no rows for it;       *)
(*   PullSpec    the client's pull and merge: cycles started by FORCE_SYNC *)
(*               and one local writer, against a server that returns rows; *)
(*   ServerSpec  the server: projects / snippets / knowledge tables and    *)
(*               sync_sessions, with the devices that push and pull;       *)
(*   PushSpec    the push route alone, with the response to each request;  *)
(*   PullRaceSpec  one pull, stepped query by query, and the pushes that   *)
(*               commit around it;                                         *)
(*   PullRouteSpec  pushes and pulls served one after the other, the pulls *)
(*               with every since, projectId and deviceId;                 *)
(*   RetrySpec   a client that sends a push request once or twice;         *)
(*   RateSpec    push requests through syncRateLimit, with the time.       *)
(*                                                                         *)
(* Scheduling model of the client.  The service worker is single-threaded: *)
(* a step of the model is one task of the event loop, i.e. the code that   *)
(* runs between two awaits that wait on IndexedDB, chrome.storage or the   *)
(* network.  An IndexedDB request takes effect at the place of its         *)
(* transaction in creation order, so a request is modelled in the step     *)
(* that creates it and its callback is the next step of that caller.       *)
(***************************************************************************)
EXTENDS Integers, Sequences, FiniteSets, TLC

\* ---------------------------------------------------------------- bounds
MaxWrites == 2         \* local writes (saveData / deleteById) per behaviour
MaxFailures == 3       \* failed push attempts counted over the queued entries
MaxVersion == 1        \* syncVersion values a pull response may carry
MaxPushes == 3         \* pushes the server receives per behaviour
MaxRacePushes == 2     \* pushes per behaviour of the specifications with pulls
TickSeconds == 30      \* seconds between two instants at which requests arrive
MaxClock == 60         \* the last instant
MaxOtherRequests == 2  \* rate-limited requests of a user other than u1 per window

\* ------------------------------------------------------ program constants
MaxRetries == 3        \* CLOUD_CONFIG.maxRetries
PushPoints == 30       \* syncPushLimiter points
PushDuration == 60     \* syncPushLimiter duration, seconds

Procs == {"timer", "force"}
RecIds == {"r1"}

NoRec == [val |-> "none", updatedAt |-> 0, syncStatus |-> "none", isDeleted |-> FALSE]

VARIABLES
  \* ---- client (storage.js, background service worker)
  idb,          \* whether indexedDB.open succeeds (initDB resolves db, not null)
  settings,     \* the settings store
  syncTimer,    \* setInterval handle of startAutoSync is set
  isSyncing,    \* module flag "Prevent concurrent sync operations"
  store,        \* an object store of records, keyed by id
  syncQueue,    \* the syncQueue object store (set of items keyed by id)
  nextQid,      \* autoIncrement key generator of syncQueue
  run,          \* per caller of a sync cycle: position and locals
  writer,       \* the local writer: position and arguments
  writes,       \* number of local writes started; the clock, see Now
  \* ---- client history (read by the properties only)
  failures,     \* per queue id: failed push attempts of the entry still queued
  pushedOk,     \* queue ids whose push was answered with success
  authFailed,   \* a sync request was answered 401 and no login succeeded since
  sentAfter401, \* a push or pull request was sent while authFailed
  lastWrite,    \* what became of the last local write if it was made mid-cycle
  prevPull,     \* <<syncVersion>> of the last successful pull's response, or <<>>
  \* ---- server (sync.ts)
  sessions,     \* sync_sessions: per (user, device) its syncVersion, or Absent
  projects,     \* projects table
  snippets,     \* snippets table
  knowledge,    \* knowledge table
  cursor,       \* per device: syncVersion returned by its previous pull
  pushes,       \* number of pushes received
  \* ---- server history
  lastStamp,    \* per user: syncVersion stamped by the last successful push
  unseen,       \* per device: rows other devices wrote since its last pull
  stamps,       \* per knowledge id: the client updatedAt values of the versions written
  \* ---- server, the HTTP exchange (sync.ts)
  response,     \* the response to the last push request
  reader,       \* the pull request being served: its queries still to run, its rows
  request,      \* the push request a client sends and sends again
  \* ---- server, rate limiting of the sync routes (sync.ts)
  clock,        \* the server's time in seconds
  limiter,      \* syncPushLimiter: per key its consumed points and the end of its window
  \* ---- rate limiting history
  seen,         \* per user: push requests received at the previous and at this instant
  \* ---- client, the functions called with arguments (storage.js, context matcher)
  args,         \* the arguments of the call
  ret,          \* what the call returned
  \* ---- client, the message handlers of the service worker (part_003)
  localData,    \* the local stores of projects, snippets, knowledge and the activity log
  handler,      \* per message handler: position and locals
  \* ---- server, the sync_sessions table row by row (sync.ts, part_006)
  sessionRows,  \* the committed rows of sync_sessions
  txn           \* per push request: position in its transaction and locals

clientVars == <<idb, settings, syncTimer, isSyncing, store, syncQueue, nextQid,
                run, writer, writes, failures, pushedOk, authFailed,
                sentAfter401, lastWrite, prevPull>>
callVars == <<args, ret>>
handlerVars == <<localData, handler>>
sessionVars == <<sessionRows, txn>>
routeVars == <<response, reader, request, clock, limiter, seen>>
tableVars == <<sessions, projects, snippets, knowledge, cursor, pushes, lastStamp, unseen, stamps>>
apiVars == <<response, reader, request, clock, limiter, seen, callVars, handlerVars, sessionVars>>
\* What a push handler leaves to the client that sends and to the limiter.
otherVars == <<request, clock, limiter, seen, callVars, handlerVars, sessionVars>>
serverVars == <<sessions, projects, snippets, knowledge, cursor, pushes,
                lastStamp, unseen, stamps, apiVars>>
vars == <<clientVars, serverVars>>

\* ======================================================================
\* Client: storage.js
\* ======================================================================

\* A record as saveData stores it through IndexedDB: marked pending, stamped.
\* Date.now(), in a unit in which it advances by one from one local write to
\* the next.
Now == writes

PendingRec(t) == [val |-> "local", updatedAt |-> t, syncStatus |-> "pending",
                  isDeleted |-> FALSE]

\* A record as the chrome.storage.local fallback of saveData stores it: the
\* caller's object as it is (the handlers set neither updatedAt nor syncStatus).
FallbackRec == [val |-> "local", updatedAt |-> 0, syncStatus |-> "none", isDeleted |-> FALSE]

\* A pulled item as pullFromCloud stores it: the item with syncStatus set.
SyncedRec(item) == [val |-> "cloud", updatedAt |-> item.updatedAt, syncStatus |-> "synced",
                    isDeleted |-> item.isDeleted]

\* The items a pull response may hold: at most one record, any updatedAt,
\* soft-deleted on the server or not.
PulledItems == {[id |-> i, updatedAt |-> t, isDeleted |-> x] :
                  i \in RecIds, t \in 1..MaxWrites, x \in BOOLEAN}
CloudData == {<<>>} \cup {<<it>> : it \in PulledItems}

\* The records of a store that a listing or a search of their project hands
\* out (handleGetSnippets, handleGetKnowledge: getByIndex; searchSnippets,
\* searchKnowledge, searchAll: getByIndex or getAllData, then the score):
\* every record the store holds is a candidate.
Listed(st) == {id \in DOMAIN st : st[id] # NoRec}

\* The item queueForSync adds.
SyncItem(qid, op, id) == [id |-> qid, operation |-> op, dataId |-> id, retries |-> 0]

QueueIds == {q.id : q \in syncQueue}

\* store.getAll() on syncQueue: the items in key order.
RECURSIVE GetAll(_)
GetAll(q) ==
  IF q = {} THEN <<>>
  ELSE LET m == CHOOSE x \in q : \A y \in q : x.id <= y.id
       IN <<m>> \o GetAll(q \ {m})

\* deleteTx.objectStore('syncQueue').delete(item.id)
QueueDelete(q, item) == {x \in q : x.id # item.id}

\* A processSyncQueue that drops an entry on its first failed push.
QueueAfterPushEager(q, item, resp) ==
  IF resp \in {"ok", "fail"} THEN QueueDelete(q, item) ELSE q

\* The sync queue after processSyncQueue handled the answer to item's push.
QueueAfterPush(q, item, resp) ==
  CASE resp = "ok" -> QueueDelete(q, item)
    [] resp = "fail" -> IF item.retries + 1 >= MaxRetries THEN QueueDelete(q, item) ELSE q
    [] OTHER -> q

\* "Update sync status": the record of a pushed item, if it exists, is marked synced.
StoreAfterPush(st, item, resp) ==
  IF resp = "ok" /\ st[item.dataId] # NoRec
  THEN [st EXCEPT ![item.dataId].syncStatus = "synced"]
  ELSE st

\* "Cloud wins if newer, or if local doesn't exist"
MergeApplies(local, item) == local = NoRec \/ item.updatedAt > local.updatedAt

\* saveDataDirect: a put without queueing; nothing without a database.
SaveDataDirect(db, st, item) ==
  IF db THEN [st EXCEPT ![item.id] = SyncedRec(item)] ELSE st

\* A caller's locals: items and cloud are what the for loops have yet to
\* handle, the item in hand first.
IdleRun == [pc |-> "idle", items |-> <<>>, cloud |-> <<>>,
            local |-> NoRec, respVersion |-> 0]
IdleWriter == [pc |-> "idle", op |-> "none", id |-> "none", mid |-> FALSE]

\* Positions between "isSyncing = true" and the finally block.
InFlightPcs == {"psq_fetch", "pull_fetch", "pull_got"}
InFlight(p) == run[p].pc \in InFlightPcs
CycleInFlight == \E p \in Procs : InFlight(p)

ClientInit ==
  /\ idb \in BOOLEAN
  /\ settings = [isPremium |-> FALSE, cloudSyncEnabled |-> FALSE,
                 cloudAuthToken |-> FALSE, lastCloudPullAt |-> 0]
  /\ syncTimer = FALSE
  /\ isSyncing = FALSE
  /\ store = [i \in RecIds |-> NoRec]
  /\ syncQueue = {}
  /\ nextQid = 1
  /\ run = [p \in Procs |-> IdleRun]
  /\ writer = IdleWriter
  /\ writes = 0
  /\ failures = [q \in 1..MaxWrites |-> 0]
  /\ pushedOk = {}
  /\ authFailed = FALSE
  /\ sentAfter401 = FALSE
  /\ lastWrite = "none"
  /\ prevPull = <<>>

history == <<failures, pushedOk, authFailed, sentAfter401, lastWrite, prevPull>>

\* ------------------------------------------------------------ settings
\* handleUpdateSetting('isPremium', true): the popup's licence activation.
HandleUpdateSetting ==
  /\ ~settings.isPremium
  /\ settings' = [settings EXCEPT !.isPremium = TRUE]
  /\ UNCHANGED <<idb, syncTimer, isSyncing, store, syncQueue, nextQid, run, writer, writes, history, serverVars>>

\* cloudLogin answered with success: token and cloudSyncEnabled set, timer started.
CloudLogin ==
  /\ settings' = [settings EXCEPT !.cloudAuthToken = TRUE, !.cloudSyncEnabled = TRUE]
  /\ syncTimer' = TRUE
  /\ authFailed' = FALSE
  /\ sentAfter401' = FALSE
  /\ UNCHANGED <<idb, isSyncing, store, syncQueue, nextQid, run, writer,
                 writes, failures, pushedOk, lastWrite, prevPull, serverVars>>

\* ------------------------------------------------------------ local writes
\* The write itself: the put or delete on the store.  With a database the
\* request's onsuccess calls queueForSync; the chrome.storage.local fallback
\* queues nothing.
BeginWrite(op, id, rec) ==
  /\ writer.pc = "idle"
  /\ writes < MaxWrites
  /\ writes' = writes + 1
  /\ store' = [store EXCEPT ![id] = rec]
  /\ IF idb
     THEN /\ writer' = [pc |-> "qfs", op |-> op, id |-> id,
                        mid |-> (settings.isPremium /\ settings.cloudSyncEnabled
                                 /\ CycleInFlight)]
          /\ UNCHANGED lastWrite
     ELSE /\ writer' = IdleWriter
          /\ lastWrite' = "none"
  /\ UNCHANGED <<idb, settings, syncTimer, isSyncing, syncQueue, nextQid, run,
                 failures, pushedOk, authFailed, sentAfter401, prevPull, serverVars>>

SaveData(id) == BeginWrite("upsert", id, IF idb THEN PendingRec(Now + 1) ELSE FallbackRec)

DeleteById(id) == BeginWrite("delete", id, NoRec)

\* The queue after queueForSync read the two settings.
QfsQueue(q, w, qid, st, db) ==
  IF ~st.isPremium \/ ~st.cloudSyncEnabled \/ ~db THEN q
  ELSE q \cup {SyncItem(qid, w.op, w.id)}

\* queueForSync: getSetting('isPremium'), getSetting('cloudSyncEnabled'), the
\* premium check, then store.add(syncItem).
QueueForSync ==
  /\ writer.pc = "qfs"
  /\ syncQueue' = QfsQueue(syncQueue, writer, nextQid, settings, idb)
  /\ nextQid' = IF syncQueue' # syncQueue THEN nextQid + 1 ELSE nextQid
  /\ lastWrite' = IF ~writer.mid THEN "none"
                  ELSE IF syncQueue' # syncQueue THEN "queued" ELSE "lost"
  /\ writer' = IdleWriter
  /\ UNCHANGED <<idb, settings, syncTimer, isSyncing, store, run, writes,
                 failures, pushedOk, authFailed, sentAfter401, prevPull, serverVars>>

\* ------------------------------------------------------------ sync cycles
\* pullFromCloud up to its first await: the isSyncing guard.  A refused call
\* returns and its caller is done.
PullEnter(syncing) ==
  IF syncing THEN IdleRun ELSE [IdleRun EXCEPT !.pc = "pull_wait"]

\* A caller whose processSyncQueue goes on although isSyncing is set.
PsqEnterUnguarded(syncing) == [IdleRun EXCEPT !.pc = "psq_wait"]

\* processSyncQueue up to its first await: the isSyncing guard.  A refused call
\* returns and the caller goes on to pullFromCloud in the same task.
PsqEnter(syncing) ==
  IF syncing THEN PullEnter(syncing) ELSE [IdleRun EXCEPT !.pc = "psq_wait"]

\* The setInterval callback of startAutoSync: the two settings, then
\* processSyncQueue() if both are set.
TimerTick ==
  /\ syncTimer
  /\ run["timer"].pc = "idle"
  /\ settings.isPremium /\ settings.cloudSyncEnabled
  /\ run' = [run EXCEPT !["timer"] = PsqEnter(isSyncing)]
  /\ UNCHANGED <<idb, settings, syncTimer, isSyncing, store, syncQueue, nextQid, writer, writes, history, serverVars>>

\* handleForceSync: processSyncQueue() ...
HandleForceSync ==
  /\ run["force"].pc = "idle"
  /\ run' = [run EXCEPT !["force"] = PsqEnter(isSyncing)]
  /\ UNCHANGED <<idb, settings, syncTimer, isSyncing, store, syncQueue, nextQid, writer, writes, history, serverVars>>

\* Failed push attempts of the entries 1..n together.
RECURSIVE Failed(_)
Failed(n) == IF n = 0 THEN 0 ELSE failures[n] + Failed(n - 1)

\* The prerequisites of processSyncQueue.
PsqPrerequisites(st, db) ==
  st.isPremium /\ st.cloudSyncEnabled /\ st.cloudAuthToken /\ db

\* processSyncQueue between two items: the next fetch, or return, finally, and
\* the caller's pullFromCloud().
PsqLoop(items) ==
  IF items # <<>> THEN [IdleRun EXCEPT !.pc = "psq_fetch", !.items = items]
  ELSE PullEnter(FALSE)

\* processSyncQueue after its settings reads: the prerequisite checks, then
\* isSyncing = true, the getAll on syncQueue and the first fetch.
PsqStart(p) ==
  /\ run[p].pc = "psq_wait"
  /\ IF PsqPrerequisites(settings, idb)
     THEN /\ run' = [run EXCEPT ![p] = PsqLoop(GetAll(syncQueue))]
          /\ isSyncing' = (run'[p].pc = "psq_fetch")
          /\ sentAfter401' = (sentAfter401 \/ (authFailed /\ run'[p].pc = "psq_fetch"))
     ELSE /\ run' = [run EXCEPT ![p] = PullEnter(isSyncing)]
          /\ UNCHANGED <<isSyncing, sentAfter401>>
  /\ UNCHANGED <<idb, settings, syncTimer, store, syncQueue, nextQid, writer,
                 writes, failures, pushedOk, authFailed, lastWrite, prevPull,
                 serverVars>>

\* The push of the item in hand is answered with success (response.ok): the entry is
\* deleted, the record marked synced, and the loop goes on.
PushOk(p) ==
  /\ run[p].pc = "psq_fetch"
  /\ LET item == Head(run[p].items) IN
       /\ syncQueue' = QueueAfterPush(syncQueue, item, "ok")
       /\ store' = StoreAfterPush(store, item, "ok")
       /\ pushedOk' = pushedOk \cup {item.id}
       /\ lastWrite' = IF lastWrite = "queued" /\ item.id = nextQid - 1
                        THEN "pushed" ELSE lastWrite
       /\ failures' = [failures EXCEPT ![item.id] = 0]
  /\ run' = [run EXCEPT ![p] = PsqLoop(Tail(run[p].items))]
  /\ isSyncing' = IF run'[p].pc = "psq_fetch" THEN isSyncing ELSE FALSE
  /\ sentAfter401' = (sentAfter401 \/ (authFailed /\ run'[p].pc = "psq_fetch"))
  /\ UNCHANGED <<idb, settings, syncTimer, nextQid, writer, writes,
                 authFailed, prevPull, serverVars>>

\* The push of the item in hand is answered 401: setSetting('cloudSyncEnabled', false),
\* return, finally, and the caller's pullFromCloud().
PushUnauthorized(p) ==
  /\ run[p].pc = "psq_fetch"
  /\ settings' = [settings EXCEPT !.cloudSyncEnabled = FALSE]
  /\ authFailed' = TRUE
  /\ run' = [run EXCEPT ![p] = PullEnter(FALSE)]
  /\ isSyncing' = FALSE
  /\ UNCHANGED <<idb, syncTimer, store, syncQueue, nextQid, writer,
                 writes, failures, pushedOk, sentAfter401, lastWrite, prevPull,
                 serverVars>>

\* The push of the item in hand is answered with another status ("fail"), or the
\* fetch throws, network error or timeout ("error"); the loop goes on.
PushFailed(p, resp) ==
  /\ run[p].pc = "psq_fetch"
  /\ resp \in {"fail", "error"}
  /\ LET item == Head(run[p].items) IN
       /\ Failed(MaxWrites) < MaxFailures
       /\ failures' = IF item.id \in QueueIds
                      THEN [failures EXCEPT ![item.id] = @ + 1] ELSE failures
       /\ syncQueue' = QueueAfterPush(syncQueue, item, resp)
  /\ run' = [run EXCEPT ![p] = PsqLoop(Tail(run[p].items))]
  /\ isSyncing' = IF run'[p].pc = "psq_fetch" THEN isSyncing ELSE FALSE
  /\ sentAfter401' = (sentAfter401 \/ (authFailed /\ run'[p].pc = "psq_fetch"))
  /\ UNCHANGED <<idb, settings, syncTimer, store, nextQid, writer, writes,
                 pushedOk, authFailed, lastWrite, prevPull, serverVars>>

\* The prerequisites of pullFromCloud.
PullPrerequisites(st) == st.isPremium /\ st.cloudAuthToken

\* pullFromCloud after its settings reads: the prerequisite check,
\* isSyncing = true, then the fetch of /sync/pull?since=lastCloudPullAt.
PullStart(p) ==
  /\ run[p].pc = "pull_wait"
  /\ IF PullPrerequisites(settings)
     THEN /\ run' = [run EXCEPT ![p].pc = "pull_fetch"]
          /\ isSyncing' = TRUE
          /\ sentAfter401' = (sentAfter401 \/ authFailed)
     ELSE /\ run' = [run EXCEPT ![p] = IdleRun]
          /\ UNCHANGED <<isSyncing, sentAfter401>>
  /\ UNCHANGED <<idb, settings, syncTimer, store, syncQueue, nextQid, writer,
                 writes, failures, pushedOk, authFailed, lastWrite, prevPull,
                 serverVars>>

\* A pullFromCloud without its finally block.
PullFailedStuck(p, resp) ==
  /\ run[p].pc = "pull_fetch"
  /\ resp \in {"http401", "fail", "error"}
  /\ authFailed' = (authFailed \/ resp = "http401")
  /\ run' = [run EXCEPT ![p] = IdleRun]
  /\ UNCHANGED <<idb, settings, syncTimer, isSyncing, store, syncQueue, nextQid, writer,
                 writes, failures, pushedOk, sentAfter401, lastWrite, prevPull,
                 serverVars>>

\* The pull is answered with a non-OK status (401 among them) or the fetch
\* throws: "throw new Error", the catch returns the failure, and finally.
PullFailed(p, resp) ==
  /\ run[p].pc = "pull_fetch"
  /\ resp \in {"http401", "fail", "error"}
  /\ authFailed' = (authFailed \/ resp = "http401")
  /\ run' = [run EXCEPT ![p] = IdleRun]
  /\ isSyncing' = FALSE
  /\ UNCHANGED <<idb, settings, syncTimer, store, syncQueue, nextQid, writer,
                 writes, failures, pushedOk, sentAfter401, lastWrite, prevPull,
                 serverVars>>

\* The value setSetting('lastCloudPullAt', ...) stores after the merge, of the
\* response's syncVersion and Date.now().
PullCursor(version, t) == t

\* pullFromCloud between two items, on the store st: getById of the next item,
\* or, after the last, setSetting('lastCloudPullAt', ...), return and finally.
PullLoop(r, st) ==
  IF r.cloud # <<>>
  THEN [r EXCEPT !.pc = "pull_got", !.local = st[Head(r.cloud).id]]
  ELSE IdleRun

\* What the end of a successful pull leaves, r being the caller before and
\* after the step.
PullFinish(p, r) ==
  IF run'[p].pc = "idle"
  THEN /\ settings' = [settings EXCEPT !.lastCloudPullAt = PullCursor(r.respVersion, Now)]
       /\ prevPull' = <<r.respVersion>>
       /\ isSyncing' = FALSE
  ELSE UNCHANGED <<settings, prevPull, isSyncing>>

\* The pull is answered with success and its body has arrived; the merge loop
\* starts.
PullOk(p, cloud, version) ==
  /\ run[p].pc = "pull_fetch"
  /\ LET r == [run[p] EXCEPT !.cloud = cloud, !.respVersion = version] IN
       /\ run' = [run EXCEPT ![p] = PullLoop(r, store)]
       /\ PullFinish(p, r)
  /\ UNCHANGED <<idb, syncTimer, store, syncQueue, nextQid, writer, writes,
                 failures, pushedOk, authFailed, sentAfter401, lastWrite, serverVars>>

PullGotQueued(p) ==
  /\ run[p].pc = "pull_got"
  /\ LET r == run[p]
         item == Head(r.cloud)
     IN /\ store' = IF MergeApplies(r.local, item)
                    THEN SaveDataDirect(idb, store, item) ELSE store
        /\ syncQueue' = IF MergeApplies(r.local, item)
                        THEN QfsQueue(syncQueue, [op |-> "upsert", id |-> item.id], nextQid,
                                      settings, idb)
                        ELSE syncQueue
        /\ nextQid' = IF syncQueue' # syncQueue THEN nextQid + 1 ELSE nextQid
        /\ run' = [run EXCEPT ![p] = PullLoop([r EXCEPT !.cloud = Tail(@)], store')]
        /\ PullFinish(p, r)
  /\ UNCHANGED <<idb, syncTimer, writer, writes,
                 failures, pushedOk, authFailed, sentAfter401, lastWrite, serverVars>>

\* pullFromCloud: getById of the item in hand has come back; the merge decision and,
\* when the cloud wins, saveDataDirect; then the loop goes on.
PullGot(p) ==
  /\ run[p].pc = "pull_got"
  /\ LET r == run[p]
         item == Head(r.cloud)
     IN /\ store' = IF MergeApplies(r.local, item)
                    THEN SaveDataDirect(idb, store, item) ELSE store
        /\ run' = [run EXCEPT ![p] = PullLoop([r EXCEPT !.cloud = Tail(@)], store')]
        /\ PullFinish(p, r)
  /\ UNCHANGED <<idb, syncTimer, syncQueue, nextQid, writer, writes,
                 failures, pushedOk, authFailed, sentAfter401, lastWrite, serverVars>>

\* ======================================================================
\* Server: backend/src/routes/sync.ts
\* ======================================================================

Users == {"u1", "u2"}
\* A device is signed in as one user; sync_sessions is keyed by (userId, deviceId).
Devices == {"dA", "dB", "dX"}
UserOf(d) == IF d = "dX" THEN "u2" ELSE "u1"

ProjectIds == {"p1"}
SnippetIds == {"s1"}
KnowledgeIds == {"k1"}
Contents == {"a", "b"}
\* The updatedAt a client holds for a knowledge version: "a" was written at 1,
\* "b" at 2.
StampOf(c) == IF c = "a" THEN 1 ELSE 2

Absent == -1                \* no sync_sessions row
NoRow == [userId |-> "none", projectId |-> "none", content |-> "none",
          syncVersion |-> 0, updatedAt |-> 0]

\* The items of a push body.  content stands for the fields the upsert copies
\* from the item on insert and on update (name, description, code, language,
\* question, answer, tags, source, contentHash, isDeleted).  updatedAt is what the
\* client holds for the item; syncPushSchema has no such key.
\* A projectId of an item is the id of a project or "px", an id that no
\* project has.
RefIds == ProjectIds \cup {"px"}
ProjectItems == {[id |-> i, content |-> c] : i \in ProjectIds, c \in Contents}
SnippetItems == {[id |-> i, projectId |-> q, content |-> c] :
                   i \in SnippetIds, q \in RefIds, c \in Contents}
KnowledgeItems == {[id |-> i, projectId |-> q, content |-> c, updatedAt |-> StampOf(c)] :
                     i \in KnowledgeIds, q \in RefIds, c \in Contents}
AtMostOne(S) == {{}} \cup {{x} : x \in S}
Batches == [projects : AtMostOne(ProjectItems), snippets : AtMostOne(SnippetItems),
            knowledge : AtMostOne(KnowledgeItems)]

\* syncPushSchema.safeParse: zod objects drop the keys the schema does not name.
ParseKnowledge(k) == [id |-> k.id, projectId |-> k.projectId, content |-> k.content]

\* validateProjectOwnership: the ids that are no project of the user.
InvalidProjectIds(projs, userId, ids) ==
  {id \in ids : ~(id \in DOMAIN projs /\ projs[id] # NoRow /\ projs[id].userId = userId)}

\* Referenced project ids that are not created by this batch.
ExistingProjectCheck(batch) ==
  ({x.projectId : x \in batch.snippets} \cup {x.projectId : x \in batch.knowledge})
    \ {x.id : x \in batch.projects}

\* validProjectIds: the batch's projects and the checked references.
ValidProjectIds(batch) == {x.id : x \in batch.projects} \cup ExistingProjectCheck(batch)

\* newSyncVersion = (session.syncVersion || 0) + 1, the session created at 0.
NewSyncVersion(sess, d) == (IF sess[d] = Absent THEN 0 ELSE sess[d]) + 1

\* insert ... onConflictDoUpdate({target: id, set: {...}, where: userId = user}):
\* the row of item after the statement.  projectId (and createdAt) are set on
\* insert only.
UpsertRowDeleteOnConflict(row, item, pid, userId, version, time) ==
  IF row = NoRow
  THEN [userId |-> userId, projectId |-> pid, content |-> item.content,
        syncVersion |-> version, updatedAt |-> time]
  ELSE IF row.userId = userId
  THEN NoRow
  ELSE row

UpsertRowStaleVersion(row, item, pid, userId, version, time) ==
  IF row = NoRow
  THEN [userId |-> userId, projectId |-> pid, content |-> item.content,
        syncVersion |-> version, updatedAt |-> time]
  ELSE IF row.userId = userId
  THEN [row EXCEPT !.content = item.content, !.updatedAt = time]
  ELSE row

UpsertRowAnyOwner(row, item, pid, userId, version, time) ==
  IF row = NoRow
  THEN [userId |-> userId, projectId |-> pid, content |-> item.content,
        syncVersion |-> version, updatedAt |-> time]
  ELSE [row EXCEPT !.content = item.content, !.syncVersion = version,
                   !.updatedAt = time]

UpsertRow(row, item, pid, userId, version, time) ==
  IF row = NoRow
  THEN [userId |-> userId, projectId |-> pid, content |-> item.content,
        syncVersion |-> version, updatedAt |-> time]
  ELSE IF row.userId = userId
  THEN [row EXCEPT !.content = item.content, !.syncVersion = version,
                   !.updatedAt = time]
  ELSE row

\* A table after the upsert of items.
Upsert(table, items, userId, version, time) ==
  [i \in DOMAIN table |->
     IF \E x \in items : x.id = i
     THEN LET x == CHOOSE y \in items : y.id = i
          IN UpsertRow(table[i], x, IF "projectId" \in DOMAIN x THEN x.projectId ELSE "none",
                       userId, version, time)
     ELSE table[i]]

\* changes.snippets?.filter(s => validProjectIds.has(s.projectId))
ValidItems(items, valid) == {x \in items : x.projectId \in valid}

\* The rows of a table a pull returns: the user's, above since, of the project.
ChangedRowsAnyUser(table, userId, since, projectId) ==
  {i \in DOMAIN table :
     /\ table[i] # NoRow
     /\ table[i].syncVersion > since
     /\ (projectId # "none" => table[i].projectId = projectId)}

ChangedRows(table, userId, since, projectId) ==
  {i \in DOMAIN table :
     /\ table[i] # NoRow
     /\ table[i].userId = userId
     /\ table[i].syncVersion > since
     /\ (projectId # "none" => table[i].projectId = projectId)}

\* currentSyncVersion of a pull that names its device.
PullVersion(sess, d) == IF sess[d] = Absent THEN 0 ELSE sess[d]

\* Keys of the rows of all three tables a pull of userId above since returns.
\* The projects query carries no projectId condition.
PullRows(userId, since, projectId) ==
  ChangedRows(projects, userId, since, "none")
    \cup ChangedRows(snippets, userId, since, projectId)
    \cup ChangedRows(knowledge, userId, since, projectId)

\* Keys of the rows a push of batch by userId writes (inserts or updates).
Written(batch, userId) ==
  {x.id : x \in {y \in batch.projects : projects[y.id] = NoRow \/ projects[y.id].userId = userId}}
    \cup {x.id : x \in {y \in batch.snippets : snippets[y.id] = NoRow \/ snippets[y.id].userId = userId}}
    \cup {x.id : x \in {y \in batch.knowledge : knowledge[y.id] = NoRow \/ knowledge[y.id].userId = userId}}

\* res.status(...).json(...) of the push route; status 0: no request yet.
NoResponse == [status |-> 0, error |-> "none", syncVersion |-> 0, invalidProjectIds |-> {},
               retryAfter |-> 0]

\* The four queries the pull route starts together (Promise.all).
Queries == {"projects", "snippets", "knowledge", "session"}
IdleReader == [pc |-> "idle", userId |-> "none", d |-> "none", since |-> 0,
               projectId |-> "none", pending |-> {}, status |-> 0, rows |-> {},
               syncVersion |-> 0]

\* No function has been called.
NoCall == [fn |-> "none"]

\* sent: how often the client has sent the request.
NoRequest == [d |-> "none", batch |-> [projects |-> {}, snippets |-> {}, knowledge |-> {}],
              sent |-> 0]

ServerInit ==
  /\ sessions = [d \in Devices |-> Absent]
  /\ projects = [i \in ProjectIds |-> NoRow]
  /\ snippets = [i \in SnippetIds |-> NoRow]
  /\ knowledge = [i \in KnowledgeIds |-> NoRow]
  /\ cursor = [d \in Devices |-> 0]
  /\ pushes = 0
  /\ lastStamp = [u \in Users |-> 0]
  /\ unseen = [d \in Devices |-> {}]
  /\ stamps = [i \in KnowledgeIds |-> {}]
  /\ response = NoResponse
  /\ reader = IdleReader
  /\ request = NoRequest
  /\ clock = 0
  /\ limiter = [u \in Users |-> [consumed |-> 0, expiresAt |-> 0]]
  /\ seen = [u \in Users |-> [prev |-> 0, cur |-> 0]]

\* No function of the client has been called.
CallInit == args = NoCall /\ ret = NoCall

\* The local stores of a fresh installation: no project, no active project.
\* now is Date.now(), log the number of activityLog entries.
NoLocal == [projects |-> <<>>, snippets |-> <<>>, knowledge |-> <<>>,
            activeProjectId |-> "none",
            grace |-> [snippets |-> 0, knowledge |-> 0],
            log |-> 0, now |-> 0]

Handlers == {"saveSnippet", "saveKnowledge", "deleteProject"}

\* A handler that is not running: projectId is the project it works on, todo
\* what its loop has yet to delete, dup the duplicateCheck, used the
\* graceSavesUsed that checkLimits read, warning the type of limitWarning,
\* calls how often the handler was called.
IdleHandler == [pc |-> "idle", projectId |-> "none", data |-> <<>>, todo |-> <<>>,
                dup |-> [isDuplicate |-> FALSE], used |-> 0, warning |-> "null",
                result |-> [success |-> FALSE], calls |-> 0]

HandlerInit == localData = NoLocal /\ handler = [h \in Handlers |-> IdleHandler]

\* The push requests whose transactions may overlap.
Requests == {"q1", "q2"}

\* No transaction open: session is the row the transaction works with, pending
\* the rows it has inserted and not committed, n the transactions it has begun.
NoSessionRow == [id |-> <<>>, userId |-> "none", deviceId |-> "none", syncVersion |-> 0]
NoTxn == [pc |-> "idle", userId |-> "none", deviceId |-> "none",
          session |-> NoSessionRow, pending |-> {}, n |-> 0]

SessionInit == sessionRows = {} /\ txn = [r \in Requests |-> NoTxn]

PushRejectedPartial(d, batch) ==
  /\ pushes < MaxPushes
  /\ InvalidProjectIds(projects, UserOf(d), ExistingProjectCheck(batch)) # {}
  /\ pushes' = pushes + 1
  /\ projects' = Upsert(projects, batch.projects, UserOf(d), NewSyncVersion(sessions, d),
                        pushes + 1)
  /\ UNCHANGED <<sessions, snippets, knowledge, cursor, lastStamp, unseen, stamps, clientVars>>

\* POST /sync/push with an invalid project reference: 400, nothing written.
PushRejected(d, batch) ==
  /\ pushes < MaxPushes
  /\ InvalidProjectIds(projects, UserOf(d), ExistingProjectCheck(batch)) # {}
  /\ pushes' = pushes + 1
  /\ UNCHANGED <<sessions, projects, snippets, knowledge, cursor, lastStamp, unseen,
                 stamps, clientVars>>

\* POST /sync/push: the reference check passed; the transaction.  The time of
\* "new Date()" is the ordinal of the push.
Push(d, batch) ==
  /\ pushes < MaxPushes
  /\ InvalidProjectIds(projects, UserOf(d), ExistingProjectCheck(batch)) = {}
  /\ pushes' = pushes + 1
  /\ LET u == UserOf(d)
         v == NewSyncVersion(sessions, d)
         valid == ValidProjectIds(batch)
         wrote == Written(batch, u)
     IN /\ projects' = Upsert(projects, batch.projects, u, v, pushes + 1)
        /\ snippets' = Upsert(snippets, ValidItems(batch.snippets, valid), u, v, pushes + 1)
        /\ knowledge' = Upsert(knowledge,
                               {ParseKnowledge(k) : k \in ValidItems(batch.knowledge, valid)},
                               u, v, pushes + 1)
        /\ sessions' = [sessions EXCEPT ![d] = v]
        /\ lastStamp' = [lastStamp EXCEPT ![u] = v]
        /\ unseen' = [e \in Devices |->
                        IF e = d THEN unseen[e] \ wrote
                        ELSE IF UserOf(e) = u THEN unseen[e] \cup wrote
                        ELSE unseen[e]]
        /\ stamps' = [i \in KnowledgeIds |->
                        stamps[i] \cup {k.updatedAt : k \in {x \in batch.knowledge :
                                                               x.id = i /\ i \in wrote}}]
  /\ UNCHANGED <<cursor, clientVars>>

\* GET /sync/pull?since=&deviceId= by device d, which sends the syncVersion its
\* previous pull returned and keeps the one this pull returns.
Pull(d) ==
  /\ unseen' = [unseen EXCEPT ![d] = {}]
  /\ cursor' = [cursor EXCEPT ![d] = PullVersion(sessions, d)]
  /\ UNCHANGED <<sessions, projects, snippets, knowledge, pushes, lastStamp, stamps,
                 clientVars>>

\* ---- the push route with its response
\* 200 {success: true, syncVersion}: the transaction committed.
PushSuccess(d, batch) ==
  /\ Push(d, batch)
  /\ reader' = reader
  /\ response' = [NoResponse EXCEPT !.status = 200,
                                    !.syncVersion = NewSyncVersion(sessions, d)]

\* 400 {error: 'Invalid project references', invalidProjectIds}.
PushInvalidReferences(d, batch) ==
  /\ PushRejected(d, batch)
  /\ reader' = reader
  /\ response' = [NoResponse EXCEPT
                    !.status = 400, !.error = "Invalid project references",
                    !.invalidProjectIds =
                      InvalidProjectIds(projects, UserOf(d), ExistingProjectCheck(batch))]

\* 400 {error: 'Invalid sync data'}: syncPushSchema.safeParse failed.
PushInvalidBody(d) ==
  /\ response' = [NoResponse EXCEPT !.status = 400, !.error = "Invalid sync data"]
  /\ reader' = reader
  /\ UNCHANGED <<sessions, projects, snippets, knowledge, cursor, pushes, lastStamp, unseen,
                 stamps, clientVars>>

\* 500 {error: 'Sync failed'}: a statement of the transaction threw; db.transaction
\* rolls back what the statements before it wrote.
PushError(d, batch) ==
  /\ pushes < MaxPushes
  /\ InvalidProjectIds(projects, UserOf(d), ExistingProjectCheck(batch)) = {}
  /\ pushes' = pushes + 1
  /\ reader' = reader
  /\ response' = [NoResponse EXCEPT !.status = 500, !.error = "Sync failed"]
  /\ UNCHANGED <<sessions, projects, snippets, knowledge, cursor, lastStamp, unseen,
                 stamps, clientVars>>

\* ---- the pull route, one step per database query
\* GET /sync/pull?since=&deviceId= by device d, no projectId: the handler
\* up to Promise.all, which starts the four queries.
PullBegin(d) ==
  /\ reader.pc = "idle"
  /\ reader' = [pc |-> "queries", userId |-> UserOf(d), d |-> d, since |-> cursor[d],
                projectId |-> "none", pending |-> Queries, status |-> 0, rows |-> {},
                syncVersion |-> 0]
  /\ UNCHANGED <<sessions, projects, snippets, knowledge, cursor, pushes, lastStamp, unseen,
                 stamps, response, request, clock, limiter, seen, callVars, handlerVars, sessionVars, clientVars>>

\* The rows a select of the pull returns, each with its userId and updatedAt.
Selected(table, userId, since, projectId) ==
  {[id |-> i, userId |-> table[i].userId, updatedAt |-> table[i].updatedAt] :
     i \in ChangedRows(table, userId, since, projectId)}

\* One of the four queries runs: db.select() on the pool, outside any
\* transaction, reads what is committed when it runs.
PullQuery(q) ==
  /\ reader.pc = "queries"
  /\ q \in reader.pending
  /\ LET u == reader.userId
         got == CASE q = "projects" -> Selected(projects, u, reader.since, "none")
                  [] q = "snippets" -> Selected(snippets, u, reader.since, "none")
                  [] q = "knowledge" -> Selected(knowledge, u, reader.since, "none")
                  [] OTHER -> {}
     IN reader' = [reader EXCEPT !.pending = @ \ {q}, !.rows = @ \cup got,
                                 !.syncVersion = IF q = "session"
                                                 THEN PullVersion(sessions, reader.d) ELSE @]
  /\ UNCHANGED <<sessions, projects, snippets, knowledge, cursor, pushes, lastStamp, unseen,
                 stamps, response, request, clock, limiter, seen, callVars, handlerVars, sessionVars, clientVars>>

\* res.json({syncVersion, changes}): reader holds the response.
PullRespond ==
  /\ reader.pc = "queries"
  /\ reader.pending = {}
  /\ reader' = [reader EXCEPT !.pc = "done", !.status = 200]
  /\ UNCHANGED <<sessions, projects, snippets, knowledge, cursor, pushes, lastStamp, unseen,
                 stamps, response, request, clock, limiter, seen, callVars, handlerVars, sessionVars, clientVars>>

\* currentSyncVersion: the session of (userId, deviceId), or without deviceId
\* MAX(syncVersion) over the user's sessions; 0 when there is none.
RECURSIVE MaxOf(_)
MaxOf(S) == IF S = {} THEN 0
            ELSE LET x == CHOOSE y \in S : TRUE
                     m == MaxOf(S \ {x})
                 IN IF x > m THEN x ELSE m
CurrentSyncVersion(sess, userId, deviceId) ==
  IF deviceId # "none"
  THEN IF UserOf(deviceId) = userId THEN PullVersion(sess, deviceId) ELSE 0
  ELSE MaxOf({sess[e] : e \in {x \in Devices : UserOf(x) = userId /\ sess[x] # Absent}})

\* GET /sync/pull?since=&projectId=&deviceId= by userId, the handler as a
\* whole, its queries reading one state: 404 when projectId is given and is
\* no project of the user, otherwise 200 with the rows of the three selects.
PullServed(userId, since, projectId, deviceId) ==
  /\ reader.pc = "idle"
  /\ LET userProject == projectId \in DOMAIN projects /\ projects[projectId] # NoRow
                          /\ projects[projectId].userId = userId
         asked == [IdleReader EXCEPT !.pc = "done", !.userId = userId, !.d = deviceId,
                                     !.since = since, !.projectId = projectId]
     IN reader' = IF projectId # "none" /\ ~userProject
                  THEN [asked EXCEPT !.status = 404]
                  ELSE [asked EXCEPT
                          !.status = 200,
                          !.rows = Selected(projects, userId, since, "none")
                                     \cup Selected(snippets, userId, since, projectId)
                                     \cup Selected(knowledge, userId, since, projectId),
                          !.syncVersion = CurrentSyncVersion(sessions, userId, deviceId)]
  /\ UNCHANGED <<sessions, projects, snippets, knowledge, cursor, pushes, lastStamp, unseen,
                 stamps, response, request, clock, limiter, seen, callVars, handlerVars, sessionVars, clientVars>>

\* The response of the pull has been sent.
PullSent ==
  /\ reader.pc = "done"
  /\ reader' = IdleReader
  /\ UNCHANGED <<sessions, projects, snippets, knowledge, cursor, pushes, lastStamp, unseen,
                 stamps, response, request, clock, limiter, seen, callVars, handlerVars, sessionVars, clientVars>>

\* ---- a client that sends a push request and sends the same request again
\* (at-least-once delivery: processSyncQueue sends an entry again until it gets
\* a success response).
Handled(d, batch) == PushSuccess(d, batch) \/ PushInvalidReferences(d, batch)

SendFirst(d, batch) ==
  /\ request.sent = 0
  /\ Handled(d, batch)
  /\ request' = [d |-> d, batch |-> batch, sent |-> 1]
  /\ UNCHANGED <<clock, limiter, seen, callVars, handlerVars, sessionVars>>

SendAgain ==
  /\ request.sent = 1
  /\ Handled(request.d, request.batch)
  /\ request' = [request EXCEPT !.sent = 2]
  /\ UNCHANGED <<clock, limiter, seen, callVars, handlerVars, sessionVars>>

\* The client is done with the request, sent once or twice.
SendDone ==
  /\ request.sent > 0
  /\ request' = NoRequest
  /\ UNCHANGED <<sessions, projects, snippets, knowledge, cursor, pushes, lastStamp, unseen,
                 stamps, response, reader, clock, limiter, seen, callVars, handlerVars, sessionVars, clientVars>>

\* ---- syncRateLimit in front of the push route
\* RateLimiterMemory.consume(key) at time now, on the record of the key: a
\* record whose window has ended is replaced by a new one that ends duration
\* seconds from now; the request is rejected when consumed exceeds points.
\* Values of consumed above points + 1 are not told apart.
Consume(rec, now) ==
  IF rec.expiresAt > now
  THEN [rec EXCEPT !.consumed = IF @ > PushPoints THEN @ ELSE @ + 1]
  ELSE [consumed |-> 1, expiresAt |-> now + PushDuration]

\* A push request of device d arrives at syncRateLimit.
Arrive(d) ==
  /\ UserOf(d) # "u1" => limiter[UserOf(d)].consumed < MaxOtherRequests
  /\ limiter' = [limiter EXCEPT ![UserOf(d)] = Consume(@, clock)]
  /\ seen' = [seen EXCEPT ![UserOf(d)].cur = IF @ > PushPoints THEN @ ELSE @ + 1]
  /\ UNCHANGED <<clock, request, callVars, handlerVars, sessionVars>>

\* consume rejects: 429 with retryAfter = ceil(msBeforeNext / 1000); next() is
\* not called.
RateLimited(d) ==
  /\ Arrive(d)
  /\ Consume(limiter[UserOf(d)], clock).consumed > PushPoints
  /\ response' = [NoResponse EXCEPT
                    !.status = 429, !.error = "Too many sync requests",
                    !.retryAfter = Consume(limiter[UserOf(d)], clock).expiresAt - clock]
  /\ UNCHANGED <<sessions, projects, snippets, knowledge, cursor, pushes, lastStamp, unseen,
                 stamps, reader, clientVars>>

\* consume resolves: next(), the push handler runs.
RatePassed(d, batch) ==
  /\ Arrive(d)
  /\ Consume(limiter[UserOf(d)], clock).consumed <= PushPoints
  /\ Handled(d, batch)

RatePassedInvalidBody(d) ==
  /\ Arrive(d)
  /\ Consume(limiter[UserOf(d)], clock).consumed <= PushPoints
  /\ PushInvalidBody(d)

\* Time passes.
Tick ==
  /\ clock + TickSeconds <= MaxClock
  /\ clock' = clock + TickSeconds
  /\ seen' = [u \in Users |-> [prev |-> seen[u].cur, cur |-> 0]]
  /\ UNCHANGED <<sessions, projects, snippets, knowledge, cursor, pushes, lastStamp, unseen,
                 stamps, response, reader, request, limiter, callVars, handlerVars, sessionVars, clientVars>>

\* The batches of the rate-limited requests: projects only.
RateBatches == {b \in Batches : b.snippets = {} /\ b.knowledge = {}}

\* ======================================================================
\* Specifications
\* ======================================================================
Init == ClientInit /\ ServerInit /\ CallInit /\ HandlerInit /\ SessionInit

\* The sync engine of one client against a server that holds nothing for it:
\* a successful pull carries no rows and syncVersion 0.
Next ==
  \/ HandleUpdateSetting
  \/ CloudLogin
  \/ \E id \in RecIds : SaveData(id)
  \/ \E id \in RecIds : DeleteById(id)
  \/ QueueForSync
  \/ TimerTick
  \/ HandleForceSync
  \/ \E p \in Procs : PsqStart(p)
  \/ \E p \in Procs : PushOk(p)
  \/ \E p \in Procs : PushUnauthorized(p)
  \/ \E p \in Procs, resp \in {"fail", "error"} : PushFailed(p, resp)
  \/ \E p \in Procs : PullStart(p)
  \/ \E p \in Procs, resp \in {"http401", "fail", "error"} : PullFailed(p, resp)
  \/ \E p \in Procs : PullOk(p, <<>>, 0)

Spec == Init /\ [][Next]_vars

\* The pull of one client whose cycles are started by FORCE_SYNC only and whose
\* pushes succeed, against a server that holds rows for it.
PullNext ==
  \/ HandleUpdateSetting
  \/ CloudLogin
  \/ \E id \in RecIds : SaveData(id)
  \/ \E id \in RecIds : DeleteById(id)
  \/ QueueForSync
  \/ HandleForceSync
  \/ PsqStart("force")
  \/ PushOk("force")
  \/ PullStart("force")
  \/ \E resp \in {"http401", "fail", "error"} : PullFailed("force", resp)
  \/ \E cloud \in CloudData, version \in 0..MaxVersion : PullOk("force", cloud, version)
  \/ PullGot("force")

PullSpec == Init /\ [][PullNext]_vars

ServerNext ==
  \/ \E d \in Devices, batch \in Batches : PushRejected(d, batch) /\ UNCHANGED apiVars
  \/ \E d \in Devices, batch \in Batches : Push(d, batch) /\ UNCHANGED apiVars
  \/ \E d \in Devices : Pull(d) /\ UNCHANGED apiVars

\* The client stays as constructed.
ServerStart == Init /\ idb

ServerSpec == ServerStart /\ [][ServerNext]_vars

\* The push route alone, with the responses it sends.
PushNext ==
  \/ \E d \in Devices, batch \in Batches : PushSuccess(d, batch) /\ UNCHANGED otherVars
  \/ \E d \in Devices, batch \in Batches : PushInvalidReferences(d, batch) /\ UNCHANGED otherVars
  \/ \E d \in Devices : PushInvalidBody(d) /\ UNCHANGED otherVars
  \/ \E d \in Devices, batch \in Batches : PushError(d, batch) /\ UNCHANGED otherVars

PushSpec == ServerStart /\ [][PushNext]_vars

\* Pushes that commit before, while and after the queries of one pull run.
PullRaceNext ==
  \/ \E d \in Devices, batch \in Batches :
       pushes < MaxRacePushes /\ Push(d, batch) /\ UNCHANGED apiVars
  \/ \E d \in Devices : PullBegin(d)
  \/ \E q \in Queries : PullQuery(q)
  \/ PullRespond

PullRaceSpec == ServerStart /\ [][PullRaceNext]_vars

\* Requests served one after the other: pushes, and pulls with every
\* combination of since, projectId and deviceId.
PullRouteNext ==
  \/ \E d \in Devices, batch \in Batches :
       reader.pc = "idle" /\ pushes < MaxRacePushes /\ Push(d, batch) /\ UNCHANGED apiVars
  \/ \E u \in Users, since \in 0..MaxRacePushes, q \in RefIds \cup {"none"},
        d \in Devices \cup {"none"} : PullServed(u, since, q, d)
  \/ PullSent

PullRouteSpec == ServerStart /\ [][PullRouteNext]_vars

\* Push requests, each sent once or twice in a row.
RetryNext ==
  \/ \E d \in Devices, batch \in Batches : SendFirst(d, batch)
  \/ SendAgain
  \/ SendDone

RetrySpec == ServerStart /\ [][RetryNext]_vars

\* Push requests through syncRateLimit, at the instants 0, TickSeconds, ...:
\* device dA sends batches, every device sends bodies the schema rejects.
RateNext ==
  \/ \E d \in Devices : RateLimited(d)
  \/ \E batch \in RateBatches : RatePassed("dA", batch)
  \/ \E d \in Devices : RatePassedInvalidBody(d)
  \/ Tick

RateSpec == ServerStart /\ [][RateNext]_vars

\* ======================================================================
\* Properties
\* ======================================================================

\* C1: at most one sync operation (processSyncQueue or pullFromCloud) is past
\* its isSyncing guard and in flight at any time.
AtMostOneInFlight == Cardinality({p \in Procs : InFlight(p)}) <= 1

\* C2: every row a push of another device of the user wrote since device d's
\* previous pull is in the response of d's next pull, d sending the syncVersion
\* its previous pull returned.
NextPullReturnsPushedRows ==
  [][\A d \in Devices :
       (pushes' = pushes /\ unseen[d] # {} /\ unseen'[d] = {})
         => unseen[d] \subseteq PullRows(UserOf(d), cursor[d], "none")]_vars

\* C3: a queue entry whose push keeps failing is gone from the sync queue by
\* its third failure.
RetriesCapped == \A q \in syncQueue : failures[q.id] < MaxRetries

\* C4: after a push or pull was answered 401, cloudSyncEnabled is false and no
\* push or pull request is sent until cloudLogin succeeds.
UnauthorizedStopsSync == authFailed => (~settings.cloudSyncEnabled /\ ~sentAfter401)

\* C5: an entry that has left the sync queue had its push answered with
\* success (or reached the retry cap); failures, timeouts and 401 answers leave
\* it queued.
RemovedOnlyAfterSuccess ==
  \A q \in 1..(nextQid - 1) :
    q \notin QueueIds => (q \in pushedOk \/ failures[q] >= MaxRetries)

\* An entry was removed after its push succeeded while another one, whose
\* push failed, is still queued, and a push was answered 401.
RemovedAfterSuccessReached ==
  /\ \E q \in pushedOk : q \notin QueueIds
  /\ \E q \in syncQueue : failures[q.id] > 0
  /\ authFailed

\* C6: a local write made with sync enabled while a cycle is in flight gets a
\* queue entry, and the entry stays queued until a cycle has pushed it.
MidCycleWriteQueued ==
  /\ lastWrite # "lost"
  /\ lastWrite = "queued" => (nextQid - 1) \in QueueIds

\* C7: when pullFromCloud merges a pulled record R, the stored record becomes R
\* if there is no local record L of that id or R.updatedAt > L.updatedAt, and
\* stays L otherwise.
MergeIsLastWriteWins ==
  [][\A p \in Procs :
       (run[p].pc = "pull_got" /\ run'[p] # run[p])
         => LET R == Head(run[p].cloud)
                L == store[R.id]
            IN store'[R.id] = IF L = NoRec \/ R.updatedAt > L.updatedAt
                              THEN SyncedRec(R) ELSE L]_vars

\* C8: after two devices of a user each pushed once, writing versions of one
\* knowledge id with different updatedAt, the row a third device pulls (since 0)
\* is the version with the greater updatedAt.
NewestKnowledgeWins ==
  \A k \in KnowledgeIds, d1, d2 \in Devices :
    (/\ d1 # d2 /\ UserOf(d1) = UserOf(d2)
     /\ pushes = 2 /\ sessions[d1] = 1 /\ sessions[d2] = 1
     /\ Cardinality(stamps[k]) = 2)
      => /\ k \in PullRows(UserOf(d1), 0, "none")
         /\ \A t \in stamps[k] : StampOf(knowledge[k].content) >= t

\* C9: after a successful pull the stored pull cursor, which the next pull
\* sends as since, is the syncVersion of that pull's response.
CursorIsResponseVersion == prevPull # <<>> => settings.lastCloudPullAt = prevPull[1]

\* C10: the syncVersion the successful pushes of a user stamp never decreases,
\* and neither does the syncVersion of a stored row.
SyncVersionMonotonic ==
  [][/\ \A u \in Users : lastStamp'[u] >= lastStamp[u]
     /\ \A i \in ProjectIds : projects'[i].syncVersion >= projects[i].syncVersion
     /\ \A i \in SnippetIds : snippets'[i].syncVersion >= snippets[i].syncVersion
     /\ \A i \in KnowledgeIds : knowledge'[i].syncVersion >= knowledge[i].syncVersion]_vars

\* C11: the projectId of every stored snippet row and knowledge row is the id
\* of a stored project row with the same userId.
ReferencesOwnProject ==
  /\ \A i \in SnippetIds :
       snippets[i] # NoRow
         => /\ projects[snippets[i].projectId] # NoRow
            /\ projects[snippets[i].projectId].userId = snippets[i].userId
  /\ \A i \in KnowledgeIds :
       knowledge[i] # NoRow
         => /\ projects[knowledge[i].projectId] # NoRow
            /\ projects[knowledge[i].projectId].userId = knowledge[i].userId

\* C12: a push by user U leaves every project, snippet and knowledge row whose
\* userId is not U as it was, also when U's batch holds the id of such a row.
\* The pushing device is the one whose session the push advances.
PushKeepsOthersRows ==
  [][\A d \in Devices :
       (response'.status = 200 /\ sessions'[d] # sessions[d])
         => /\ \A i \in ProjectIds :
                 projects[i].userId \notin {"none", UserOf(d)} => projects'[i] = projects[i]
            /\ \A i \in SnippetIds :
                 snippets[i].userId \notin {"none", UserOf(d)} => snippets'[i] = snippets[i]
            /\ \A i \in KnowledgeIds :
                 knowledge[i].userId \notin {"none", UserOf(d)}
                   => knowledge'[i] = knowledge[i]]_vars

\* After u1 wrote project p1 at version 2, u2's first push named p1 in its
\* batch (its snippet refers to p1, which u2 does not own) and went through.
ForeignIdPushed ==
  /\ projects["p1"].userId = "u1" /\ projects["p1"].syncVersion = 2
  /\ snippets["s1"].userId = "u2" /\ snippets["s1"].projectId = "p1"
  /\ response.status = 200 /\ response.syncVersion = 1

\* C13: a push whose batch holds a snippet whose projectId is neither a project
\* the user owns nor a project of the same batch is answered 400 with a list
\* that names that snippet's id, and every other, valid item of the batch is
\* stored.
InvalidSnippetReported ==
  [][\A d \in Devices, batch \in Batches :
       LET u == UserOf(d)
           invalid == InvalidProjectIds(projects, u, ExistingProjectCheck(batch))
           bad == {x \in batch.snippets : x.projectId \in invalid}
           mine(row) == row = NoRow \/ row.userId = u
       IN (bad # {} /\ PushInvalidReferences(d, batch))
            => /\ response'.status = 400
               /\ {x.id : x \in bad} \subseteq response'.invalidProjectIds
               /\ \A x \in batch.projects :
                    mine(projects[x.id])
                      => projects'[x.id].userId = u /\ projects'[x.id].content = x.content
               /\ \A x \in batch.knowledge :
                    (x.projectId \notin invalid /\ mine(knowledge[x.id]))
                      => knowledge'[x.id].userId = u /\ knowledge'[x.id].content = x.content]_vars

\* C14: a push answered 400, for a body the schema rejects or for an invalid
\* project reference, leaves projects, snippets, knowledge and sync_sessions
\* as they were.
RejectedPushWritesNothing ==
  [][response'.status = 400 => UNCHANGED <<projects, snippets, knowledge, sessions>>]_vars

\* u2's push referred to p1, a stored project of u1, and was answered 400
\* naming p1; u2 has no session.
ForeignReferenceRejected ==
  /\ response.status = 400 /\ response.invalidProjectIds = {"p1"}
  /\ projects["p1"].userId = "u1"
  /\ sessions["dX"] = Absent

\* C15: a push is all-or-nothing.  When it is answered 200, the session of the
\* pushing device and every row the push wrote carry one syncVersion, the one
\* of the response; when it fails (400, 500), no row and no session changes.
PushAllOrNothing ==
  [][/\ response'.status = 200
          => /\ \E d \in Devices :
                  /\ sessions'[d] # sessions[d]
                  /\ sessions'[d] = response'.syncVersion
                  /\ \A e \in Devices \ {d} : sessions'[e] = sessions[e]
             /\ \A i \in ProjectIds :
                  projects'[i] # projects[i]
                    => projects'[i].syncVersion = response'.syncVersion
             /\ \A i \in SnippetIds :
                  snippets'[i] # snippets[i]
                    => snippets'[i].syncVersion = response'.syncVersion
             /\ \A i \in KnowledgeIds :
                  knowledge'[i] # knowledge[i]
                    => knowledge'[i].syncVersion = response'.syncVersion
     /\ response'.status # 200
          => UNCHANGED <<sessions, projects, snippets, knowledge>>]_vars

\* The last push, a device's second, rewrote a project, a snippet and a
\* knowledge row in one transaction: all three carry syncVersion 2.
ThreeRowsOneVersion ==
  /\ response.status = 200 /\ response.syncVersion = 2
  /\ \A row \in {projects["p1"], snippets["s1"], knowledge["k1"]} :
       row.updatedAt = pushes /\ row.syncVersion = 2

\* C16: the response of a pull without projectId never holds some but not all
\* of the rows one push wrote, also when the pull's queries run while that
\* push commits.  The rows of one push carry its time as updatedAt.
PullSeesWholePush ==
  reader.pc = "done"
    => \A g \in reader.rows :
         /\ \A i \in ProjectIds :
              projects[i].updatedAt = g.updatedAt
                => [id |-> i, updatedAt |-> g.updatedAt] \in reader.rows
         /\ \A i \in SnippetIds :
              snippets[i].updatedAt = g.updatedAt
                => [id |-> i, updatedAt |-> g.updatedAt] \in reader.rows
         /\ \A i \in KnowledgeIds :
              knowledge[i].updatedAt = g.updatedAt
                => [id |-> i, updatedAt |-> g.updatedAt] \in reader.rows

\* C17: a pull by user U returns only rows whose userId is U, for every
\* combination of since, projectId and deviceId; for a projectId that is no
\* project of U the answer is 404 and holds no rows.
PullReturnsOwnRows ==
  reader.pc = "done"
    => /\ \A g \in reader.rows : g.userId = reader.userId
       /\ (/\ reader.projectId # "none"
           /\ ~(/\ reader.projectId \in ProjectIds
                /\ projects[reader.projectId].userId = reader.userId))
            => (reader.status = 404 /\ reader.rows = {})

\* u2 pulled with the id of u1's project p1 and got 404 while u2 has a
\* stored snippet that refers to p1, above since.
ForeignProjectPull ==
  /\ reader.pc = "done" /\ reader.userId = "u2" /\ reader.projectId = "p1"
  /\ reader.status = 404
  /\ projects["p1"].userId = "u1"
  /\ snippets["s1"].userId = "u2" /\ snippets["s1"].projectId = "p1"
  /\ snippets["s1"].syncVersion > reader.since

\* C18: pushing the same batch twice in a row (same user, device, ids and
\* content) succeeds both times, and every stored row has the same content
\* fields and owner after the second push as after the first.
PushTwiceSameRows ==
  [][(request.sent = 1 /\ request'.sent = 2 /\ response.status = 200)
       => /\ response'.status = 200
          /\ \A i \in ProjectIds :
               /\ projects'[i].content = projects[i].content
               /\ projects'[i].userId = projects[i].userId
          /\ \A i \in SnippetIds :
               /\ snippets'[i].content = snippets[i].content
               /\ snippets'[i].userId = snippets[i].userId
               /\ snippets'[i].projectId = snippets[i].projectId
          /\ \A i \in KnowledgeIds :
               /\ knowledge'[i].content = knowledge[i].content
               /\ knowledge'[i].userId = knowledge[i].userId
               /\ knowledge'[i].projectId = knowledge[i].projectId]_vars

\* A batch of a project, a snippet and a knowledge item was pushed twice in a
\* row by a device that had pushed before; the second push rewrote all three
\* rows, which an earlier push had written with other content.
SameBatchPushedTwice ==
  /\ request.sent = 2 /\ response.status = 200 /\ response.syncVersion = 3
  /\ \A row \in {projects["p1"], snippets["s1"], knowledge["k1"]} :
       row.updatedAt = pushes /\ row.syncVersion = 3 /\ row.content = "b"
  /\ pushes = 3

\* C19: for each authenticated user, the 31st push request within 60 seconds
\* is answered 429 with a retryAfter and changes no table; requests of other
\* users do not count against that user's limit.  The requests of the last
\* 60 seconds are those of this instant and, the instants being less than 60
\* seconds apart, of the previous one.
ThirtyFirstPushRejected ==
  [][\A u \in Users :
       (clock' = clock /\ seen'[u] # seen[u])
         => /\ seen'[u].cur + (IF TickSeconds < PushDuration THEN seen'[u].prev ELSE 0)
                 > PushPoints
               => /\ response'.status = 429
                  /\ response'.retryAfter > 0
                  /\ UNCHANGED <<projects, snippets, knowledge, sessions>>
            /\ \A v \in Users \ {u} : limiter'[v] = limiter[v]]_vars

\* C20: every saveData call that resolves leaves the record stored with
\* syncStatus 'pending' and updatedAt = now, and its queueForSync puts an upsert
\* item for the record into the sync queue, whatever the sync settings and the
\* storage mode are.
SavedIsPendingAndQueued ==
  [][/\ \A id \in RecIds :
          SaveData(id)
            => /\ store'[id].syncStatus = "pending"
               /\ store'[id].updatedAt = writes'
               /\ writer'.pc = "qfs"
     /\ (QueueForSync /\ writer.op = "upsert")
          => \E q \in syncQueue' \ syncQueue :
               q.operation = "upsert" /\ q.dataId = writer.id]_vars

\* C21: no step of pullFromCloud changes the sync queue: applying pulled rows
\* adds no entry, so the next cycle does not push a pulled row back.
PullLeavesQueue ==
  [][\A p \in Procs :
       (run[p].pc \in {"pull_wait", "pull_fetch", "pull_got"} /\ run'[p] # run[p])
         => (syncQueue' = syncQueue /\ nextQid' = nextQid)]_vars

\* A pull has finished and its row replaced a local record, with sync enabled
\* and premium, and no queue entry was ever made for it.
PulledRowStored ==
  /\ \E id \in RecIds : store[id].val = "cloud" /\ store[id].syncStatus = "synced"
  /\ settings.isPremium /\ settings.cloudSyncEnabled
  /\ prevPull # <<>>
  /\ writes = 0 /\ syncQueue = {} /\ nextQid = 1

\* C22: no record with isDeleted = true is returned by the local listing and
\* search operations, records stored by a pull merge included.
DeletedNeverListed == \A id \in Listed(store) : ~store[id].isDeleted


\* ---------------------------------------------------------------------------
\* Content fingerprinting and duplicate detection (storage.js).  A text is the
\* sequence of its character codes.

MaxStored == 2

Space == 32
Newline == 10
WhiteSpace == {9, 10, 11, 12, 13, 32}

\* The words of the texts: "let", "LET", "sum", "add", "map", "key", "val",
\* "get", and the short words "x" and "=".
Word ==
  [let |-> <<108, 101, 116>>, letUpper |-> <<76, 69, 84>>, sum |-> <<115, 117, 109>>,
   add |-> <<97, 100, 100>>, map |-> <<109, 97, 112>>, key |-> <<107, 101, 121>>,
   val |-> <<118, 97, 108>>, get |-> <<103, 101, 116>>, x |-> <<120>>, eq |-> <<61>>]

\* The texts: four, five, six and seven words; the five words in another
\* spelling; the five words and two short ones; two other words.
Text ==
  LET four == Word.let \o <<Space>> \o Word.sum \o <<Space>> \o Word.add \o <<Space>> \o Word.map
      five == four \o <<Space>> \o Word.key
      six == five \o <<Space>> \o Word.val
  IN [four |-> four,
      five |-> five,
      fiveSpaced |-> <<Space>> \o Word.letUpper \o <<Space, Space>> \o Word.sum \o <<Newline>>
                       \o Word.add \o <<Space>> \o Word.map \o <<Space>> \o Word.key
                       \o <<Newline>>,
      fiveShort |-> five \o <<Space>> \o Word.x \o <<Space>> \o Word.eq,
      six |-> six,
      seven |-> six \o <<Space>> \o Word.get,
      other |-> Word.get \o <<Space>> \o Word.val]

ToLowerCase(str) ==
  [k \in 1..Len(str) |-> IF str[k] >= 65 /\ str[k] <= 90 THEN str[k] + 32 ELSE str[k]]

RECURSIVE TrimStart(_)
TrimStart(str) ==
  IF str # <<>> /\ Head(str) \in WhiteSpace THEN TrimStart(Tail(str)) ELSE str

RECURSIVE TrimEnd(_)
TrimEnd(str) ==
  IF str # <<>> /\ str[Len(str)] \in WhiteSpace
  THEN TrimEnd(SubSeq(str, 1, Len(str) - 1))
  ELSE str

Trim(str) == TrimEnd(TrimStart(str))

\* str.replace(/\s+/g, ' ')
RECURSIVE CollapseWhiteSpace(_)
CollapseWhiteSpace(str) ==
  IF str = <<>> THEN <<>>
  ELSE IF Head(str) \in WhiteSpace
       THEN <<Space>> \o CollapseWhiteSpace(TrimStart(str))
       ELSE <<Head(str)>> \o CollapseWhiteSpace(Tail(str))

normalizeContent(content) == CollapseWhiteSpace(ToLowerCase(Trim(content)))

\* The hash as an unsigned 32-bit number in two 16-bit halves: one step is
\* hash * 31 + char, kept to 32 bits.
RECURSIVE HashFrom(_, _)
HashFrom(hash, str) ==
  IF str = <<>> THEN hash
  ELSE LET lo == hash.lo * 31 + Head(str)
           hi == hash.hi * 31 + (lo \div 65536)
       IN HashFrom([hi |-> hi % 65536, lo |-> lo % 65536], Tail(str))

\* '' for an empty content, the hexadecimal form of the hash otherwise.
hashContent(content) ==
  IF content = <<>> THEN [hi |-> -1, lo |-> -1]
  ELSE HashFrom([hi |-> 0, lo |-> 0], content)

\* str.split(' '): cur is the word being read.
RECURSIVE SplitSpace(_, _)
SplitSpace(str, cur) ==
  IF str = <<>> THEN <<cur>>
  ELSE IF Head(str) = Space
       THEN <<cur>> \o SplitSpace(Tail(str), <<>>)
       ELSE SplitSpace(Tail(str), Append(cur, Head(str)))

WordSet(str) ==
  LET words == SplitSpace(str, <<>>)
  IN {words[k] : k \in {j \in 1..Len(words) : Len(words[j]) > 2}}

\* The similarity is the fraction inter / union.
calculateSimilarity(str1, str2) ==
  LET words1 == WordSet(str1)
      words2 == WordSet(str2)
  IN IF str1 = <<>> \/ str2 = <<>> \/ words1 = {} \/ words2 = {}
     THEN [inter |-> 0, union |-> 1]
     ELSE [inter |-> Cardinality(words1 \cap words2),
           union |-> Cardinality(words1 \cup words2)]


SnippetThreshold == 80
KnowledgeThreshold == 85

\* similarity > percent / 100
Above(similarity, percent) == 100 * similarity.inter > percent * similarity.union

\* Math.round(similarity * 100)
RoundPercent(similarity) ==
  (200 * similarity.inter + similarity.union) \div (2 * similarity.union)

\* getByIndex(storeName, 'projectId', projectId): the records of the project, in
\* stored order.
getByIndex(records, projectId) == SelectSeq(records, LAMBDA r : r.projectId = projectId)

NotDuplicate == [isDuplicate |-> FALSE]

\* The for loop over the snippets: the result of the first snippet that
\* matches, exactly or by similarity.
DuplicateAmong(normalizedNew, found) ==
  LET hashNew == hashContent(normalizedNew)
      normalizedExisting == [k \in 1..Len(found) |-> normalizeContent(found[k].code)]
      Exact(k) == hashNew = hashContent(normalizedExisting[k])
      similarity(k) == calculateSimilarity(normalizedNew, normalizedExisting[k])
      matching == {k \in 1..Len(found) : Exact(k) \/ Above(similarity(k), SnippetThreshold)}
      first == CHOOSE k \in matching : \A j \in matching : k <= j
  IN IF matching = {} THEN NotDuplicate
     ELSE IF Exact(first)
          THEN [isDuplicate |-> TRUE, matchType |-> "exact", existingItem |-> found[first]]
          ELSE [isDuplicate |-> TRUE, matchType |-> "similar",
                similarity |-> RoundPercent(similarity(first)),
                existingItem |-> found[first]]

findDuplicateSnippet(code, projectId, records) ==
  DuplicateAmong(normalizeContent(code), getByIndex(records, projectId))

RECURSIVE DuplicateKnowledgeAmong(_, _, _)
DuplicateKnowledgeAmong(normalizedQuestion, normalizedAnswer, items) ==
  IF items = <<>> THEN NotDuplicate
  ELSE LET item == Head(items)
           existingQuestion == normalizeContent(item.question)
           existingAnswer == normalizeContent(item.answer)
           answerSimilarity == calculateSimilarity(normalizedAnswer, existingAnswer)
       IN IF hashContent(normalizedQuestion \o normalizedAnswer)
               = hashContent(existingQuestion \o existingAnswer)
          THEN [isDuplicate |-> TRUE, matchType |-> "exact", existingItem |-> item]
          ELSE IF Above(answerSimilarity, KnowledgeThreshold)
               THEN [isDuplicate |-> TRUE, matchType |-> "similar",
                     similarity |-> RoundPercent(answerSimilarity),
                     existingItem |-> item]
               ELSE DuplicateKnowledgeAmong(normalizedQuestion, normalizedAnswer, Tail(items))

findDuplicateKnowledge(question, answer, projectId, records) ==
  DuplicateKnowledgeAmong(normalizeContent(question), normalizeContent(answer),
                          getByIndex(records, projectId))

\* Stored records of up to max entries with the ids 1, 2, ... in order.
StoredUpTo(Fields, max) ==
  UNION {{[k \in 1..n |-> [id |-> k] @@ f[k]] : f \in [1..n -> Fields]} : n \in 0..max}

\* The calls of findDuplicateSnippet and findDuplicateKnowledge.
DuplicateCalls ==
  LET codes == {Text.four, Text.five, Text.fiveSpaced, Text.fiveShort, Text.six, Text.other}
      questions == {Word.key, <<Newline>> \o Word.key, <<>>}
      answers == {Text.six, Text.seven, <<Space>> \o Text.seven, <<>>}
  IN [fn : {"findDuplicateSnippet"}, code : codes, projectId : {"p1"},
      records : StoredUpTo([code : codes, projectId : RefIds], MaxStored)]
       \cup [fn : {"findDuplicateKnowledge"}, question : questions, answer : answers,
             projectId : {"p1"},
             records : StoredUpTo([question : questions, answer : answers, projectId : RefIds],
                                  MaxStored)]

DuplicateStart ==
  ClientInit /\ idb /\ ServerInit /\ HandlerInit /\ SessionInit /\ args \in DuplicateCalls /\ ret = NoCall

CallFindDuplicateSnippet ==
  /\ args.fn = "findDuplicateSnippet" /\ ret = NoCall
  /\ ret' = findDuplicateSnippet(args.code, args.projectId, args.records)
  /\ UNCHANGED <<args, handlerVars, sessionVars, routeVars, tableVars, clientVars>>

CallFindDuplicateKnowledge ==
  /\ args.fn = "findDuplicateKnowledge" /\ ret = NoCall
  /\ ret' = findDuplicateKnowledge(args.question, args.answer, args.projectId, args.records)
  /\ UNCHANGED <<args, handlerVars, sessionVars, routeVars, tableVars, clientVars>>

DuplicateNext == CallFindDuplicateSnippet \/ CallFindDuplicateKnowledge

DuplicateSpec == DuplicateStart /\ [][DuplicateNext]_vars


\* C25: findDuplicateSnippet reports an exact duplicate whenever the project
\* holds a snippet whose normalized code equals the normalized new code,
\* whatever else the project holds and in whatever order; findDuplicateKnowledge
\* does the same on the normalized question plus answer.
EqualContentIsExact ==
  /\ (args.fn = "findDuplicateSnippet" /\ ret # NoCall)
       => LET held == getByIndex(args.records, args.projectId)
          IN (\E k \in 1..Len(held) :
                normalizeContent(held[k].code) = normalizeContent(args.code))
               => (ret.isDuplicate /\ ret.matchType = "exact")
  /\ (args.fn = "findDuplicateKnowledge" /\ ret # NoCall)
       => LET held == getByIndex(args.records, args.projectId)
          IN (\E k \in 1..Len(held) :
                normalizeContent(held[k].question) \o normalizeContent(held[k].answer)
                  = normalizeContent(args.question) \o normalizeContent(args.answer))
               => (ret.isDuplicate /\ ret.matchType = "exact")

\* C26: with no exact match in the project, a 'similar' duplicate is reported
\* exactly when some snippet of the project has a token-set Jaccard similarity
\* of at least 0.80 with the new code (0.85 on the answer for knowledge), and
\* the reported similarity is round(100 x Jaccard) for the reported item.
SimilarFromThreshold ==
  /\ (args.fn = "findDuplicateSnippet" /\ ret # NoCall)
       => LET held == getByIndex(args.records, args.projectId)
              new == normalizeContent(args.code)
              Jaccard(k) == calculateSimilarity(new, normalizeContent(held[k].code))
          IN (\A k \in 1..Len(held) : normalizeContent(held[k].code) # new)
               => /\ (ret.isDuplicate /\ ret.matchType = "similar")
                       <=> \E k \in 1..Len(held) :
                             100 * Jaccard(k).inter >= SnippetThreshold * Jaccard(k).union
                  /\ ret.isDuplicate
                       => \E k \in 1..Len(held) :
                            /\ held[k] = ret.existingItem
                            /\ ret.similarity = RoundPercent(Jaccard(k))
  /\ (args.fn = "findDuplicateKnowledge" /\ ret # NoCall)
       => LET held == getByIndex(args.records, args.projectId)
              question == normalizeContent(args.question)
              answer == normalizeContent(args.answer)
              Jaccard(k) == calculateSimilarity(answer, normalizeContent(held[k].answer))
          IN (\A k \in 1..Len(held) :
                normalizeContent(held[k].question) \o normalizeContent(held[k].answer)
                  # question \o answer)
               => /\ (ret.isDuplicate /\ ret.matchType = "similar")
                       <=> \E k \in 1..Len(held) :
                             100 * Jaccard(k).inter >= KnowledgeThreshold * Jaccard(k).union
                  /\ ret.isDuplicate
                       => \E k \in 1..Len(held) :
                            /\ held[k] = ret.existingItem
                            /\ ret.similarity = RoundPercent(Jaccard(k))


\* ---------------------------------------------------------------------------
\* The message handlers of the service worker (part_003).  Each handler runs
\* from one await to the next in one step; handlers of different messages
\* interleave at their awaits.

MaxCalls == 3

SnippetLimit == 100
KnowledgeLimit == 200
GraceSaves == 5

\* new Date(createdAt).toLocaleDateString(), with days of DayLength instants.
DayLength == 2
DateOf(t) == t \div DayLength

Savers == {"saveSnippet", "saveKnowledge"}
StoreOf(h) == IF h = "saveKnowledge" THEN "knowledge" ELSE "snippets"

\* message.data of SAVE_SNIPPET and SAVE_KNOWLEDGE
DataOf(h) ==
  IF StoreOf(h) = "snippets"
  THEN {[code |-> c] : c \in {Text.fiveSpaced, Text.six, Text.other}}
  ELSE {[question |-> Word.key, answer |-> Text.six],
        [question |-> <<>>, answer |-> Text.seven],
        [question |-> Word.key, answer |-> Text.other]}

\* Two projects, the first one active, with one snippet and one knowledge item
\* in the first.
StartLocal ==
  [NoLocal EXCEPT
     !.projects = <<"p1", "p2">>,
     !.activeProjectId = "p1",
     !.snippets = <<[id |-> 1, projectId |-> "p1", code |-> Text.five, createdAt |-> 1]>>,
     !.knowledge = <<[id |-> 2, projectId |-> "p1", question |-> Word.key,
                      answer |-> Text.six, createdAt |-> 2]>>,
     !.now = 2]

\* A free user, or a premium user who is logged in with cloud sync on.
UserStart ==
  /\ idb \in BOOLEAN
  /\ \E premium \in BOOLEAN :
       settings = [isPremium |-> premium, cloudSyncEnabled |-> premium,
                   cloudAuthToken |-> premium, lastCloudPullAt |-> 0]
  /\ syncTimer = settings.cloudSyncEnabled
  /\ isSyncing = FALSE
  /\ store = [i \in RecIds |-> NoRec]
  /\ syncQueue = {}
  /\ nextQid = 1
  /\ run = [p \in Procs |-> IdleRun]
  /\ writer = IdleWriter
  /\ writes = 0
  /\ failures = [q \in 1..MaxWrites |-> 0]
  /\ pushedOk = {}
  /\ authFailed = FALSE
  /\ sentAfter401 = FALSE
  /\ lastWrite = "none"
  /\ prevPull = <<>>
  /\ ServerInit /\ CallInit /\ SessionInit

\* The premium user, for whom the sync queue is written.
HandlerStart ==
  /\ UserStart
  /\ settings.isPremium
  /\ localData \in {StartLocal, [StartLocal EXCEPT !.activeProjectId = "p2"]}
  /\ handler = [h \in Handlers |-> IdleHandler]

\* What a handler step leaves alone besides the stores and the sync queue.
handlerFrame ==
  <<idb, settings, syncTimer, isSyncing, store, run, writer, writes, history,
    tableVars, routeVars, callVars, sessionVars>>

\* The messages handled so far.
RECURSIVE CallsOf(_)
CallsOf(hs) ==
  IF hs = {} THEN 0
  ELSE LET h == CHOOSE x \in hs : TRUE IN handler[h].calls + CallsOf(hs \ {h})

Calls == CallsOf(DOMAIN handler)

\* checkLimits(itemType, projectId, graceSettingKey)
checkLimits(itemType, projectId, lc, st) ==
  LET count == Len(getByIndex(lc[itemType], projectId))
      limit == IF itemType = "snippets" THEN SnippetLimit ELSE KnowledgeLimit
  IN IF st.isPremium THEN "null"
     ELSE IF count >= limit
          THEN IF lc.grace[itemType] >= GraceSaves THEN "limitReached" ELSE "grace_save"
          ELSE IF count >= (limit * 8) \div 10 THEN "approaching" ELSE "null"

\* logActivity: one more entry, nothing without a database.
logActivity(lc, db) == IF db THEN [lc EXCEPT !.log = @ + 1] ELSE lc

\* handleSaveSnippet / handleSaveKnowledge up to the answer of
\* getSetting('activeProjectId').
HandleSave(h, data) ==
  /\ handler[h].pc \in {"idle", "returned"}
  /\ Calls < MaxCalls
  /\ handler' = [handler EXCEPT ![h] =
       IF localData.activeProjectId = "none"
       THEN [IdleHandler EXCEPT !.pc = "returned", !.calls = handler[h].calls + 1,
                                !.result = [success |-> FALSE, error |-> "No active project"]]
       ELSE [IdleHandler EXCEPT !.pc = "limits", !.calls = handler[h].calls + 1,
                                !.projectId = localData.activeProjectId, !.data = data]]
  /\ UNCHANGED <<localData, syncQueue, nextQid, handlerFrame>>

\* The call of checkLimits.
SaveLimits(h) ==
  /\ handler[h].pc = "limits"
  /\ LET limitCheck == checkLimits(StoreOf(h), handler[h].projectId, localData, settings)
     IN /\ handler' = [handler EXCEPT ![h] =
             IF limitCheck = "limitReached"
             THEN [@ EXCEPT !.pc = "returned",
                            !.result = [success |-> FALSE, limitReached |-> TRUE]]
             ELSE [@ EXCEPT !.pc = "dup", !.warning = limitCheck]]
        /\ localData' = IF limitCheck = "grace_save"
                        THEN [localData EXCEPT !.grace[StoreOf(h)] = @ + 1]
                        ELSE localData
  /\ UNCHANGED <<syncQueue, nextQid, handlerFrame>>

\* The call of findDuplicateSnippet / findDuplicateKnowledge.
SaveDuplicateCheck(h) ==
  /\ handler[h].pc = "dup"
  /\ LET duplicateCheck ==
           IF StoreOf(h) = "snippets"
           THEN findDuplicateSnippet(handler[h].data.code, handler[h].projectId,
                                     localData.snippets)
           ELSE findDuplicateKnowledge(handler[h].data.question, handler[h].data.answer,
                                       handler[h].projectId, localData.knowledge)
     IN handler' = [handler EXCEPT ![h].dup = duplicateCheck,
                                   ![h].pc = IF duplicateCheck.isDuplicate
                                             THEN "log_dup" ELSE "save"]
  /\ UNCHANGED <<localData, syncQueue, nextQid, handlerFrame>>

\* The structured result of a detected duplicate.
DuplicateResult(duplicateCheck) ==
  [success |-> FALSE,
   isDuplicate |-> TRUE,
   matchType |-> duplicateCheck.matchType,
   similarity |-> IF "similarity" \in DOMAIN duplicateCheck
                  THEN duplicateCheck.similarity ELSE 100,
   existingItem |-> [id |-> duplicateCheck.existingItem.id,
                     createdAt |-> duplicateCheck.existingItem.createdAt,
                     savedDate |-> DateOf(duplicateCheck.existingItem.createdAt)]]

\* The item the handler builds, at the instant t.
NewItem(h, t) ==
  IF StoreOf(h) = "snippets"
  THEN [id |-> t, projectId |-> handler[h].projectId, code |-> handler[h].data.code,
        createdAt |-> t]
  ELSE [id |-> t, projectId |-> handler[h].projectId, question |-> handler[h].data.question,
        answer |-> handler[h].data.answer, createdAt |-> t]

\* A duplicate branch that stores the item all the same.
SaveDuplicateFoundStored(h) ==
  /\ handler[h].pc = "log_dup"
  /\ handler' = [handler EXCEPT ![h].pc = "returned",
                                ![h].result = DuplicateResult(handler[h].dup)]
  /\ localData' = [logActivity(localData, idb) EXCEPT
                     ![StoreOf(h)] = Append(@, NewItem(h, localData.now + 1)),
                     !.now = @ + 1]
  /\ UNCHANGED <<syncQueue, nextQid, handlerFrame>>

\* The duplicate branch: logActivity('duplicate_detected', ...) and the return.
SaveDuplicateFound(h) ==
  /\ handler[h].pc = "log_dup"
  /\ handler' = [handler EXCEPT ![h].pc = "returned",
                                ![h].result = DuplicateResult(handler[h].dup)]
  /\ localData' = logActivity(localData, idb)
  /\ UNCHANGED <<syncQueue, nextQid, handlerFrame>>

\* saveData(storeName, item): the put and, with a database, queueForSync.
SaveStore(h) ==
  /\ handler[h].pc = "save"
  /\ LET item == NewItem(h, localData.now + 1)
     IN /\ localData' = [localData EXCEPT ![StoreOf(h)] = Append(@, item), !.now = @ + 1]
        /\ syncQueue' = QfsQueue(syncQueue, [op |-> "upsert", id |-> item.id], nextQid,
                                 settings, idb)
        /\ handler' = [handler EXCEPT ![h].pc = "log_save",
                                      ![h].result = [success |-> TRUE, id |-> item.id]]
  /\ nextQid' = IF syncQueue' # syncQueue THEN nextQid + 1 ELSE nextQid
  /\ UNCHANGED handlerFrame

\* logActivity('save', ...) and the return.
SaveReturn(h) ==
  /\ handler[h].pc = "log_save"
  /\ handler' = [handler EXCEPT ![h].pc = "returned"]
  /\ localData' = logActivity(localData, idb)
  /\ UNCHANGED <<syncQueue, nextQid, handlerFrame>>

\* deleteById(storeName, id): the delete and, with a database, queueForSync.
DeleteFrom(records, id) == SelectSeq(records, LAMBDA r : r.id # id)

\* handleDeleteProject(projectId) up to the answer of
\* getByIndex('snippets', 'projectId', projectId).
HandleDeleteProject(projectId) ==
  /\ handler["deleteProject"].pc \in {"idle", "returned"}
  /\ Calls < MaxCalls
  /\ handler' = [handler EXCEPT !["deleteProject"] =
       [IdleHandler EXCEPT !.pc = "del_snippets", !.projectId = projectId,
                           !.calls = handler["deleteProject"].calls + 1,
                           !.todo = getByIndex(localData.snippets, projectId)]]
  /\ UNCHANGED <<localData, syncQueue, nextQid, handlerFrame>>

\* One turn of a delete loop.
DeleteNext(pc, storeName) ==
  /\ handler["deleteProject"].pc = pc
  /\ handler["deleteProject"].todo # <<>>
  /\ LET id == Head(handler["deleteProject"].todo).id
     IN /\ localData' = [localData EXCEPT ![storeName] = DeleteFrom(@, id)]
        /\ syncQueue' = QfsQueue(syncQueue, [op |-> "delete", id |-> id], nextQid,
                                 settings, idb)
  /\ nextQid' = IF syncQueue' # syncQueue THEN nextQid + 1 ELSE nextQid
  /\ handler' = [handler EXCEPT !["deleteProject"].todo = Tail(@)]
  /\ UNCHANGED handlerFrame

DeleteSnippet == DeleteNext("del_snippets", "snippets")

\* The snippets are done: getByIndex('knowledge', 'projectId', projectId).
DeleteListKnowledge ==
  /\ handler["deleteProject"].pc = "del_snippets"
  /\ handler["deleteProject"].todo = <<>>
  /\ handler' = [handler EXCEPT
       !["deleteProject"].pc = "del_knowledge",
       !["deleteProject"].todo =
          getByIndex(localData.knowledge, handler["deleteProject"].projectId)]
  /\ UNCHANGED <<localData, syncQueue, nextQid, handlerFrame>>

DeleteKnowledge == DeleteNext("del_knowledge", "knowledge")

\* The knowledge is done: deleteById('projects', projectId).
DeleteProjectRow ==
  /\ handler["deleteProject"].pc = "del_knowledge"
  /\ handler["deleteProject"].todo = <<>>
  /\ LET projectId == handler["deleteProject"].projectId
     IN /\ localData' = [localData EXCEPT
                           !.projects = SelectSeq(@, LAMBDA p : p # projectId)]
        /\ syncQueue' = QfsQueue(syncQueue, [op |-> "delete", id |-> projectId], nextQid,
                                 settings, idb)
  /\ nextQid' = IF syncQueue' # syncQueue THEN nextQid + 1 ELSE nextQid
  /\ handler' = [handler EXCEPT !["deleteProject"].pc = "active"]
  /\ UNCHANGED handlerFrame

\* getSetting('activeProjectId'): the return if another project is active.
DeleteReadActive ==
  /\ handler["deleteProject"].pc = "active"
  /\ handler' = [handler EXCEPT !["deleteProject"] =
       IF localData.activeProjectId = handler["deleteProject"].projectId
       THEN [@ EXCEPT !.pc = "fix_active"]
       ELSE [@ EXCEPT !.pc = "returned", !.result = [success |-> TRUE]]]
  /\ UNCHANGED <<localData, syncQueue, nextQid, handlerFrame>>

\* "Clear active project if this was it", and the return.
DeleteFixActive ==
  /\ handler["deleteProject"].pc = "fix_active"
  /\ localData' = [localData EXCEPT !.activeProjectId =
                     IF Len(localData.projects) > 0 THEN localData.projects[1] ELSE "none"]
  /\ handler' = [handler EXCEPT !["deleteProject"].pc = "returned",
                                !["deleteProject"].result = [success |-> TRUE]]
  /\ UNCHANGED <<syncQueue, nextQid, handlerFrame>>

HandlerNext ==
  \/ \E h \in Savers : \E data \in DataOf(h) : HandleSave(h, data)
  \/ \E h \in Savers : SaveLimits(h)
  \/ \E h \in Savers : SaveDuplicateCheck(h)
  \/ \E h \in Savers : SaveDuplicateFound(h)
  \/ \E h \in Savers : SaveStore(h)
  \/ \E h \in Savers : SaveReturn(h)
  \/ \E projectId \in {"p1", "p2"} : HandleDeleteProject(projectId)
  \/ DeleteSnippet
  \/ DeleteListKnowledge
  \/ DeleteKnowledge
  \/ DeleteProjectRow
  \/ DeleteReadActive
  \/ DeleteFixActive

HandlerSpec == HandlerStart /\ [][HandlerNext]_vars

\* C23: when handleDeleteProject(P) returns, the local stores hold no project
\* P and no snippet or knowledge item of project P, whatever save handlers ran
\* between its steps.
DeleteLeavesNothing ==
  [][(handler["deleteProject"].pc # "returned" /\ handler'["deleteProject"].pc = "returned")
       => LET P == handler["deleteProject"].projectId
          IN /\ \A k \in 1..Len(localData'.projects) : localData'.projects[k] # P
             /\ getByIndex(localData'.snippets, P) = <<>>
             /\ getByIndex(localData'.knowledge, P) = <<>>]_vars


\* C27: a save handler that detects a duplicate returns success = false and
\* isDuplicate = true with the match type, the similarity, the existing item's
\* id and its save date, and no step of that handler run changes the snippets
\* store, the knowledge store or the sync queue.
DuplicateSavesNothing ==
  [][\A h \in Savers :
       /\ (handler[h].pc \in {"limits", "dup", "log_dup"} /\ handler'[h] # handler[h])
            => /\ localData'.snippets = localData.snippets
               /\ localData'.knowledge = localData.knowledge
               /\ syncQueue' = syncQueue /\ nextQid' = nextQid
       /\ (handler[h].pc = "dup" /\ handler'[h].pc = "log_dup")
            => \E k \in 1..Len(localData[StoreOf(h)]) :
                 /\ localData[StoreOf(h)][k] = handler'[h].dup.existingItem
                 /\ localData[StoreOf(h)][k].projectId = handler[h].projectId
       /\ (handler[h].pc = "log_dup" /\ handler'[h].pc = "returned")
            => LET result == handler'[h].result
                   found == handler[h].dup
               IN /\ ~result.success /\ result.isDuplicate
                  /\ result.matchType = found.matchType
                  /\ result.matchType = "exact" => result.similarity = 100
                  /\ result.matchType = "similar" => result.similarity = found.similarity
                  /\ result.similarity \in 1..100
                  /\ result.existingItem.id = found.existingItem.id
                  /\ result.existingItem.savedDate = DateOf(found.existingItem.createdAt)]_vars

\* Both save handlers have returned a duplicate, an exact and a similar one,
\* for a premium user with a database and cloud sync on; the stores and the
\* sync queue are as they were.
DuplicateReturned ==
  /\ \A h \in Savers :
       /\ handler[h].pc = "returned"
       /\ "isDuplicate" \in DOMAIN handler[h].result
  /\ handler["saveSnippet"].result.matchType = "exact"
  /\ handler["saveKnowledge"].result.matchType = "similar"
  /\ handler["saveKnowledge"].result.similarity = 86
  /\ idb /\ settings.isPremium /\ settings.cloudSyncEnabled
  /\ localData.snippets = StartLocal.snippets
  /\ localData.knowledge = StartLocal.knowledge
  /\ syncQueue = {}


\* ---------------------------------------------------------------------------
\* The get-or-create of the sync session in the push transaction (sync.ts),
\* with sync_sessions as the set of its rows.  A transaction reads the
\* committed rows; its own insert is committed with the transaction.

MaxTransactions == 3

Begun == txn["q1"].n + txn["q2"].n

txnFrame == <<clientVars, tableVars, routeVars, callVars, handlerVars>>

\* select().from(syncSessions).where(userId, deviceId).limit(1)
SessionsOf(userId, deviceId) ==
  {row \in sessionRows : row.userId = userId /\ row.deviceId = deviceId}

\* db.transaction begins and the select is answered: one of the matching rows,
\* or none.
TxSelect(r, d) ==
  /\ txn[r].pc = "idle"
  /\ Begun < MaxTransactions
  /\ LET found == SessionsOf(UserOf(d), d)
     IN \/ /\ found = {}
           /\ txn' = [txn EXCEPT ![r] = [NoTxn EXCEPT !.pc = "insert", !.userId = UserOf(d),
                                                       !.deviceId = d, !.n = txn[r].n + 1]]
        \/ \E row \in found :
             txn' = [txn EXCEPT ![r] = [NoTxn EXCEPT !.pc = "write", !.userId = UserOf(d),
                                                      !.deviceId = d, !.session = row,
                                                      !.n = txn[r].n + 1]]
  /\ UNCHANGED <<sessionRows, txnFrame>>

\* The row of a new session, with the id nanoid() made.
NewSession(r) ==
  [id |-> <<r, txn[r].n>>, userId |-> txn[r].userId, deviceId |-> txn[r].deviceId,
   syncVersion |-> 0]

\* if (!session): tx.insert(syncSessions).values({...})
TxInsert(r) ==
  /\ txn[r].pc = "insert"
  /\ txn' = [txn EXCEPT ![r].pc = "write", ![r].session = NewSession(r),
                        ![r].pending = {NewSession(r)}]
  /\ UNCHANGED <<sessionRows, txnFrame>>

\* tx.update(syncSessions).set({syncVersion: newSyncVersion}).where(id = session.id)
SessionUpdated(rows, session) ==
  {IF row.id = session.id THEN [row EXCEPT !.syncVersion = session.syncVersion + 1] ELSE row :
     row \in rows}

\* The rest of the transaction and its commit.
TxCommit(r) ==
  /\ txn[r].pc = "write"
  /\ sessionRows' = SessionUpdated(sessionRows \cup txn[r].pending, txn[r].session)
  /\ txn' = [txn EXCEPT ![r] = [NoTxn EXCEPT !.n = txn[r].n]]
  /\ UNCHANGED txnFrame

SessionNext ==
  \/ \E r \in Requests, d \in Devices : TxSelect(r, d)
  \/ \E r \in Requests : TxInsert(r)
  \/ \E r \in Requests : TxCommit(r)

SessionSpec == ServerStart /\ [][SessionNext]_vars

\* C24: sync_sessions holds at most one row per (userId, deviceId), also after
\* two overlapping pushes from a device that had no session.
OneSessionPerDevice ==
  \A a \in sessionRows, b \in sessionRows :
    (a.userId = b.userId /\ a.deviceId = b.deviceId) => a = b


\* ---------------------------------------------------------------------------
\* ContextMatcher (part_005).  A relevance score is the fraction num / den.

MaxCandidates == 3

Score(n) == [num |-> n, den |-> 1]
ScoreGreater(a, b) == a.num * b.den > b.num * a.den
ScoreEqual(a, b) == a.num * b.den = b.num * a.den
\* Math.max(a, b)
ScoreMax(a, b) == IF ScoreGreater(b, a) THEN b ELSE a

\* const key = `${result.type}:${result.item.id}`
KeyOf(result) == <<result.type, result.id>>

\* seen.set(key, result): a Map keeps a key at the place of its first insertion.
MapSet(kept, result) ==
  IF \E k \in 1..Len(kept) : KeyOf(kept[k]) = KeyOf(result)
  THEN [k \in 1..Len(kept) |-> IF KeyOf(kept[k]) = KeyOf(result) THEN result ELSE kept[k]]
  ELSE Append(kept, result)

\* One turn of the loop of deduplicateAndSort.
MergeResult(kept, result) ==
  IF \E k \in 1..Len(kept) : KeyOf(kept[k]) = KeyOf(result)
  THEN LET existing == kept[CHOOSE k \in 1..Len(kept) : KeyOf(kept[k]) = KeyOf(result)]
       IN IF ScoreGreater(result.relevanceScore, existing.relevanceScore)
          THEN MapSet(kept, [result EXCEPT
                 !.matchReasons = existing.matchReasons \o result.matchReasons,
                 !.relevanceScore = ScoreMax(result.relevanceScore, existing.relevanceScore)])
          ELSE kept
  ELSE MapSet(kept, result)

RECURSIVE Deduplicate(_, _)
Deduplicate(results, kept) ==
  IF results = <<>> THEN kept
  ELSE Deduplicate(Tail(results), MergeResult(kept, Head(results)))

\* sort((a, b) => b.relevanceScore - a.relevanceScore): stable, descending.
RECURSIVE InsertByScore(_, _)
InsertByScore(sorted, result) ==
  IF sorted = <<>> THEN <<result>>
  ELSE IF ScoreGreater(result.relevanceScore, Head(sorted).relevanceScore)
       THEN <<result>> \o sorted
       ELSE <<Head(sorted)>> \o InsertByScore(Tail(sorted), result)

RECURSIVE SortByScore(_)
SortByScore(results) ==
  IF results = <<>> THEN <<>>
  ELSE InsertByScore(SortByScore(SubSeq(results, 1, Len(results) - 1)),
                     results[Len(results)])

deduplicateAndSort(results) == SortByScore(Deduplicate(results, <<>>))


\* MATCH_WEIGHTS and the defaults of findRelevantContext
ErrorExact == 100
ErrorFuzzy == 80
TagMatch == 25
ImportMatch == 20
FrameworkMatch == 15
TextSimilarity == 10
RecencyBonus == 5
MaxResults == 10
MinScore == 15
SevenDaysMs == 7 * 24 * 60 * 60 * 1000

\* [A-Za-z0-9_]
WordChars == (48..57) \cup (65..90) \cup (97..122) \cup {95}

\* text.split(/\W+/): cur is the word being read.  A run of separators ends
\* one word; the empty words this yields inside a run are dropped by tokenize.
RECURSIVE SplitNonWord(_, _)
SplitNonWord(text, cur) ==
  IF text = <<>> THEN <<cur>>
  ELSE IF Head(text) \in WordChars
       THEN SplitNonWord(Tail(text), Append(cur, Head(text)))
       ELSE <<cur>> \o SplitNonWord(Tail(text), <<>>)

tokenize(text) ==
  LET words == SelectSeq(SplitNonWord(text, <<>>), LAMBDA word : Len(word) > 2)
  IN [k \in 1..Len(words) |-> ToLowerCase(words[k])]

Range(list) == {list[k] : k \in 1..Len(list)}

\* The similarity as the fraction num / den.
calculateJaccardSimilarity(set1, set2) ==
  LET intersection == Cardinality(Range(set1) \cap Range(set2))
      union == Cardinality(Range(set1) \cup Range(set2))
  IN IF union = 0 THEN Score(0) ELSE [num |-> intersection, den |-> union]

\* text.includes(part)
Includes(text, part) ==
  \E k \in 0..(Len(text) - Len(part)) : SubSeq(text, k + 1, k + Len(part)) = part

Substring(text, from, to) == SubSeq(text, from + 1, IF to < Len(text) THEN to ELSE Len(text))

RECURSIVE Flatten(_)
Flatten(lists) == IF lists = <<>> THEN <<>> ELSE Head(lists) \o Flatten(Tail(lists))

\* ['error', 'fix', 'bug', 'solution', 'debug']
ErrorTags == {<<101, 114, 114, 111, 114>>, <<102, 105, 120>>, <<98, 117, 103>>, <<115, 111, 108, 117, 116, 105, 111, 110>>, <<100, 101, 98, 117, 103>>}

\* confidence > tenths / 10
MoreThan(similarity, tenths) == 10 * similarity.num > tenths * similarity.den

\* matchAgainstError, for the knowledge items.
matchAgainstError(diagnostic, knowledgeItems) ==
  LET errorText == ToLowerCase(diagnostic)
      errorWords == tokenize(errorText)
      Match(item) ==
        LET questionSimilarity ==
              calculateJaccardSimilarity(errorWords, tokenize(ToLowerCase(item.question)))
            answerContainsError ==
              Includes(ToLowerCase(item.answer), Substring(errorText, 0, 50))
            hasErrorTag == \E k \in 1..Len(item.tags) : ToLowerCase(item.tags[k]) \in ErrorTags
            score == [num |-> questionSimilarity.num * ErrorFuzzy
                                + ((IF answerContainsError THEN ErrorExact ELSE 0)
                                   + (IF hasErrorTag THEN 10 ELSE 0)) * questionSimilarity.den,
                      den |-> questionSimilarity.den]
        IN IF /\ \/ MoreThan(questionSimilarity, 2)
                 \/ answerContainsError
                 \/ (hasErrorTag /\ MoreThan(questionSimilarity, 1))
              /\ ScoreGreater(score, Score(10))
           THEN <<[type |-> "knowledge", id |-> item.id, relevanceScore |-> score,
                   matchReasons |-> <<"error_match">>]>>
           ELSE <<>>
  IN Flatten([k \in 1..Len(knowledgeItems) |-> Match(knowledgeItems[k])])

getRecencyBonus(createdAt, now) == IF now - createdAt < SevenDaysMs THEN RecencyBonus ELSE 0

\* matchByLanguage, for the knowledge items: the tags among the aliases.
matchByLanguage(aliases, knowledgeItems, now) ==
  LET langSet == {ToLowerCase(aliases[k]) : k \in 1..Len(aliases)}
      Match(item) ==
        IF \E k \in 1..Len(item.tags) : ToLowerCase(item.tags[k]) \in langSet
        THEN <<[type |-> "knowledge", id |-> item.id,
                relevanceScore |-> Score(TagMatch + getRecencyBonus(item.createdAt, now)),
                matchReasons |-> <<"language_match">>]>>
        ELSE <<>>
  IN Flatten([k \in 1..Len(knowledgeItems) |-> Match(knowledgeItems[k])])

\* importPath.split('/')[0].toLowerCase()
RECURSIVE BeforeSlash(_)
BeforeSlash(path) ==
  IF path = <<>> \/ Head(path) = 47 THEN <<>> ELSE <<Head(path)>> \o BeforeSlash(Tail(path))

normalizeImport(importPath) == ToLowerCase(BeforeSlash(importPath))

\* matchByImports, for the knowledge items.
matchByImports(imports, knowledgeItems) ==
  LET Match(item) ==
        LET text == ToLowerCase(item.question \o <<Space>> \o item.answer)
            matches == SelectSeq(imports, LAMBDA i : Includes(text, normalizeImport(i)))
        IN IF Len(matches) > 0
           THEN <<[type |-> "knowledge", id |-> item.id,
                   relevanceScore |-> Score(ImportMatch * Len(matches)),
                   matchReasons |-> <<"import_match">>]>>
           ELSE <<>>
  IN IF Len(imports) = 0 THEN <<>>
     ELSE Flatten([k \in 1..Len(knowledgeItems) |-> Match(knowledgeItems[k])])

matchByFrameworks(frameworks, knowledgeItems) ==
  LET frameworkSet == {ToLowerCase(frameworks[k]) : k \in 1..Len(frameworks)}
      Match(item) ==
        LET matchingTags == SelectSeq(item.tags, LAMBDA t : ToLowerCase(t) \in frameworkSet)
        IN IF Len(matchingTags) > 0
           THEN <<[type |-> "knowledge", id |-> item.id,
                   relevanceScore |-> Score(FrameworkMatch * Len(matchingTags)),
                   matchReasons |-> <<"framework_match">>]>>
           ELSE <<>>
  IN IF Len(frameworks) = 0 THEN <<>>
     ELSE Flatten([k \in 1..Len(knowledgeItems) |-> Match(knowledgeItems[k])])

\* matchByTextSimilarity, for the knowledge items.
matchByTextSimilarity(query, knowledgeItems) ==
  LET queryWords == tokenize(ToLowerCase(query))
      Match(item) ==
        LET targetWords == tokenize(ToLowerCase(item.question \o <<Space>> \o item.answer))
            similarity == calculateJaccardSimilarity(queryWords, targetWords)
        IN IF MoreThan(similarity, 1)
           THEN <<[type |-> "knowledge", id |-> item.id,
                   relevanceScore |-> [num |-> similarity.num * TextSimilarity * 10,
                                       den |-> similarity.den],
                   matchReasons |-> <<"text_similarity">>]>>
           ELSE <<>>
  IN IF Len(queryWords) < 2 THEN <<>>
     ELSE Flatten([k \in 1..Len(knowledgeItems) |-> Match(knowledgeItems[k])])

\* The candidates of all matchers in the order findRelevantContext collects them.
Candidates(editorContext, knowledgeItems, now) ==
  Flatten([k \in 1..Len(editorContext.diagnostics) |->
             matchAgainstError(editorContext.diagnostics[k], knowledgeItems)])
    \o matchByLanguage(editorContext.languageAliases, knowledgeItems, now)
    \o matchByImports(editorContext.imports, knowledgeItems)
    \o matchByFrameworks(editorContext.frameworks, knowledgeItems)
    \o (IF editorContext.selection # <<>> \/ editorContext.lineContent # <<>>
        THEN matchByTextSimilarity(IF editorContext.selection # <<>>
                                   THEN editorContext.selection
                                   ELSE editorContext.lineContent, knowledgeItems)
        ELSE <<>>)

\* findRelevantContext with the default options, called without snippets.
findRelevantContext(editorContext, knowledgeItems, now) ==
  LET deduped == deduplicateAndSort(Candidates(editorContext, knowledgeItems, now))
      passed == SelectSeq(deduped, LAMBDA r : ~ScoreGreater(Score(MinScore), r.relevanceScore))
  IN SubSeq(passed, 1, IF Len(passed) < MaxResults THEN Len(passed) ELSE MaxResults)


MaxKnowledge == 2

\* The diagnostic "Map key val".
Diagnostic == <<77, 97, 112>> \o <<Space>> \o Word.key \o <<Space>> \o Word.val

\* The calls of deduplicateAndSort, with up to MaxCandidates candidates, and of
\* findRelevantContext: the alias "ts", the import "sum/x", the framework
\* "Fix"; up to MaxKnowledge knowledge items, old or recent, of which one
\* shares a word of its question with the diagnostic, one contains the
\* diagnostic in its answer, one is tagged "TS" and one is tagged "fix".
MatcherCalls ==
  LET candidates ==
        [type : {"snippet", "knowledge"}, id : {1},
         relevanceScore : {Score(25), Score(30), [num |-> 80, den |-> 3]},
         matchReasons : {<<"error_match">>, <<"language_match">>, <<"import_match">>}]
      contexts ==
        [diagnostics : {<<>>, <<Diagnostic>>},
         languageAliases : {<<>>, <<<<116, 115>>>>},
         imports : {<<>>, <<Word.sum \o <<47>> \o Word.x>>},
         frameworks : {<<>>, <<<<70, 105, 120>>>>},
         selection : {<<>>, Word.map \o <<Space>> \o Word.add},
         lineContent : {<<>>, Text.four}]
      contents ==
        {[question |-> Word.map \o <<Space>> \o Word.add, answer |-> Word.sum, tags |-> <<>>],
         [question |-> Word.get, answer |-> Word.x \o <<Space>> \o ToLowerCase(Diagnostic),
          tags |-> <<>>],
         [question |-> Word.get, answer |-> Word.sum, tags |-> <<<<84, 83>>>>],
         [question |-> Text.four \o <<Space>> \o Word.get, answer |-> Word.let,
          tags |-> <<<<102, 105, 120>>>>]}
      items == [question : {c.question : c \in contents}, answer : {c.answer : c \in contents},
                tags : {c.tags : c \in contents}, createdAt : {5, 20}]
  IN [fn : {"deduplicateAndSort"},
      results : UNION {[1..m -> candidates] : m \in 0..MaxCandidates}]
       \cup [fn : {"findRelevantContext"}, editorContext : contexts,
             knowledge : StoredUpTo({i \in items : \E c \in contents :
                                       /\ c.question = i.question /\ c.answer = i.answer
                                       /\ c.tags = i.tags},
                                    MaxKnowledge),
             now : {SevenDaysMs + 10}]

MatcherStart ==
  /\ ClientInit /\ idb /\ ServerInit /\ HandlerInit /\ SessionInit
  /\ args \in MatcherCalls /\ ret = NoCall

CallDeduplicateAndSort ==
  /\ args.fn = "deduplicateAndSort" /\ ret = NoCall
  /\ ret' = [value |-> deduplicateAndSort(args.results)]
  /\ UNCHANGED <<args, handlerVars, sessionVars, routeVars, tableVars, clientVars>>

CallFindRelevantContext ==
  /\ args.fn = "findRelevantContext" /\ ret = NoCall
  /\ ret' = [value |-> findRelevantContext(args.editorContext, args.knowledge, args.now)]
  /\ UNCHANGED <<args, handlerVars, sessionVars, routeVars, tableVars, clientVars>>

MatcherNext == CallDeduplicateAndSort \/ CallFindRelevantContext

MatcherSpec == MatcherStart /\ [][MatcherNext]_vars

\* C28: the results of the merge hold, for every (type, id) key among the
\* candidates, exactly one result; its relevanceScore is the maximum of the
\* scores of the candidates with that key and its matchReasons contain the
\* reasons of every candidate with that key, in whatever order they arrived.
MergedPerKey ==
  (args.fn = "deduplicateAndSort" /\ ret # NoCall)
    => \A c \in 1..Len(args.results) :
         LET same == {k \in 1..Len(args.results) : KeyOf(args.results[k]) = KeyOf(args.results[c])}
             out == {k \in 1..Len(ret.value) : KeyOf(ret.value[k]) = KeyOf(args.results[c])}
         IN /\ Cardinality(out) = 1
            /\ \A o \in out :
                 /\ \A k \in same : ~ScoreGreater(args.results[k].relevanceScore,
                                                  ret.value[o].relevanceScore)
                 /\ \E k \in same : ScoreEqual(args.results[k].relevanceScore,
                                               ret.value[o].relevanceScore)
                 /\ \A k \in same : Range(args.results[k].matchReasons)
                                      \subseteq Range(ret.value[o].matchReasons)

\* C29: of two Knowledge items with equal createdAt, one matched only by the
\* error matcher and one matched only by the language matcher, the first has
\* the strictly higher relevanceScore and the earlier rank in the result of
\* findRelevantContext.
ErrorOutranksLanguage ==
  (args.fn = "findRelevantContext" /\ ret # NoCall)
    => LET all == Candidates(args.editorContext, args.knowledge, args.now)
           ReasonsOf(id) == {all[k].matchReasons[1] : k \in {j \in 1..Len(all) : all[j].id = id}}
           Place(id) == {k \in 1..Len(ret.value) : ret.value[k].id = id}
       IN \A a \in 1..Len(args.knowledge), b \in 1..Len(args.knowledge) :
            (/\ args.knowledge[a].createdAt = args.knowledge[b].createdAt
             /\ ReasonsOf(a) = {"error_match"}
             /\ ReasonsOf(b) = {"language_match"})
              => /\ Place(a) # {}
                 /\ \A i \in Place(a), j \in Place(b) :
                      /\ i < j
                      /\ ScoreGreater(ret.value[i].relevanceScore, ret.value[j].relevanceScore)


\* ---------------------------------------------------------------------------
\* Search (storage.js).

MaxSearched == 2

\* text.toLowerCase().replace(/[^\w\s]/g, ' ')
ReplaceNonWord(text) ==
  [k \in 1..Len(text) |->
     IF text[k] \in WordChars \cup WhiteSpace THEN text[k] ELSE Space]

\* split(/\s+/): cur is the word being read.  The empty words a run of white
\* space yields are dropped by the length filter.
RECURSIVE SplitWhiteSpace(_, _)
SplitWhiteSpace(text, cur) ==
  IF text = <<>> THEN <<cur>>
  ELSE IF Head(text) \in WhiteSpace
       THEN <<cur>> \o SplitWhiteSpace(Tail(text), <<>>)
       ELSE SplitWhiteSpace(Tail(text), Append(cur, Head(text)))

tokenizeForSearch(text) ==
  IF text = <<>> THEN <<>>
  ELSE SelectSeq(SplitWhiteSpace(ReplaceNonWord(ToLowerCase(text)), <<>>),
                 LAMBDA word : Len(word) > 2)

\* The word-level part of calculateSearchScore.
RECURSIVE WordScore(_, _, _)
WordScore(queryWords, textWords, weights) ==
  IF queryWords = <<>> THEN 0
  ELSE (IF Head(queryWords) \in textWords THEN weights.word
        ELSE IF \E textWord \in textWords :
                  Includes(textWord, Head(queryWords)) \/ Includes(Head(queryWords), textWord)
             THEN weights.partial
             ELSE 0)
       + WordScore(Tail(queryWords), textWords, weights)

calculateSearchScore(query, text, weights) ==
  IF query = <<>> \/ text = <<>> THEN 0
  ELSE (IF Includes(ToLowerCase(text), ToLowerCase(query))
        THEN weights.exact * Len(query) ELSE 0)
       + WordScore(tokenizeForSearch(query), Range(tokenizeForSearch(text)), weights)

SnippetScore(query, snippet) ==
  calculateSearchScore(query, snippet.code, [exact |-> 15, word |-> 5, partial |-> 2])
    + calculateSearchScore(query, snippet.description, [exact |-> 10, word |-> 3, partial |-> 1])
    + (IF Includes(ToLowerCase(snippet.language), ToLowerCase(query)) THEN 5 ELSE 0)

KnowledgeScore(query, item) ==
  calculateSearchScore(query, item.question, [exact |-> 12, word |-> 4, partial |-> 1])
    + calculateSearchScore(query, item.answer, [exact |-> 10, word |-> 3, partial |-> 1])
    + (IF \E k \in 1..Len(item.tags) : Includes(ToLowerCase(item.tags[k]), ToLowerCase(query))
       THEN 5 ELSE 0)

\* sort((a, b) => b.searchScore - a.searchScore): stable, descending.
RECURSIVE InsertBySearchScore(_, _)
InsertBySearchScore(sorted, item) ==
  IF sorted = <<>> THEN <<item>>
  ELSE IF item.searchScore > Head(sorted).searchScore
       THEN <<item>> \o sorted
       ELSE <<Head(sorted)>> \o InsertBySearchScore(Tail(sorted), item)

RECURSIVE SortBySearchScore(_)
SortBySearchScore(items) ==
  IF items = <<>> THEN <<>>
  ELSE InsertBySearchScore(SortBySearchScore(SubSeq(items, 1, Len(items) - 1)),
                           items[Len(items)])

\* slice(0, limit), for a limit that is not negative
Slice(items, limit) == SubSeq(items, 1, IF limit < Len(items) THEN limit ELSE Len(items))

\* getByIndex(storeName, 'projectId', projectId) or getAllData(storeName)
SearchedRecords(records, projectId) ==
  IF projectId # "none" THEN getByIndex(records, projectId) ELSE records

searchSnippets(query, projectId, limit, minScore, records) ==
  LET found == SearchedRecords(records, projectId)
      scored == [k \in 1..Len(found) |->
                   [id |-> found[k].id, searchScore |-> SnippetScore(query, found[k])]]
  IN Slice(SortBySearchScore(SelectSeq(scored, LAMBDA r : r.searchScore >= minScore)), limit)

searchKnowledge(query, projectId, limit, minScore, records) ==
  LET found == SearchedRecords(records, projectId)
      scored == [k \in 1..Len(found) |->
                   [id |-> found[k].id, searchScore |-> KnowledgeScore(query, found[k])]]
  IN Slice(SortBySearchScore(SelectSeq(scored, LAMBDA r : r.searchScore >= minScore)), limit)

\* The results of both searches with their type, snippets first.
AllResults(query, projectId, limit, snippetRecords, knowledgeRecords) ==
  LET foundSnippets == searchSnippets(query, projectId, limit, 1, snippetRecords)
      foundKnowledge == searchKnowledge(query, projectId, limit, 1, knowledgeRecords)
  IN [k \in 1..Len(foundSnippets) |-> [type |-> "snippet"] @@ foundSnippets[k]]
       \o [k \in 1..Len(foundKnowledge) |-> [type |-> "knowledge"] @@ foundKnowledge[k]]

\* A searchAll that cuts the combined list without sorting it.
searchAllUnsorted(query, projectId, limit, snippetRecords, knowledgeRecords) ==
  Slice(AllResults(query, projectId, limit, snippetRecords, knowledgeRecords), limit)

searchAll(query, projectId, limit, snippetRecords, knowledgeRecords) ==
  Slice(SortBySearchScore(AllResults(query, projectId, limit, snippetRecords, knowledgeRecords)),
        limit)

\* The calls of searchAll: the queries "map", "Map key", "maps" and "val", the
\* limits 1 and 2, up to MaxSearched snippets and knowledge items.
SearchCalls ==
  [fn : {"searchAll"},
   query : {Word.map, <<77, 97, 112>> \o <<Space>> \o Word.key, Word.map \o <<115>>, Word.val},
   projectId : {"none", "p1"},
   limit : {1, 2},
   snippets :
     StoredUpTo({[projectId |-> "p1", code |-> Text.five, description |-> <<>>,
                  language |-> <<116, 115>>],
                 [projectId |-> "p1", code |-> Text.other, description |-> Word.map,
                  language |-> <<116, 115>>],
                 [projectId |-> "px", code |-> Text.four, description |-> Word.val,
                  language |-> <<109, 97, 112>>]}, MaxSearched),
   knowledge :
     StoredUpTo({[projectId |-> "p1", question |-> Word.map \o <<Space>> \o Word.add,
                  answer |-> Word.sum, tags |-> <<>>],
                 [projectId |-> "p1", question |-> Word.get, answer |-> Text.five,
                  tags |-> <<>>],
                 [projectId |-> "px", question |-> Word.get, answer |-> Word.val,
                  tags |-> <<Word.map>>]}, MaxSearched)]
    \cup
    \* The calls of calculateSearchScore: the query is the shorter query
    \* followed by the extra words; the texts are "let sum add map key val"
    \* and "get val".
    LET shorter == {Word.map, <<77, 97, 112>>, Word.map \o <<Space>> \o Word.key,
                    Word.key \o <<Space>> \o Word.map, Word.get}
        extras == {<<>>, <<Word.val>>, <<Word.key>>, <<Word.val, Word.let>>, <<Word.x>>}
    IN {[fn |-> "calculateSearchScore", shorter |-> q, extra |-> e,
         query |-> q \o Flatten([k \in 1..Len(e) |-> <<Space>> \o e[k]]),
         text |-> t, weights |-> w] :
          q \in shorter, e \in extras, t \in {Text.six, Text.other},
          w \in {[exact |-> 10, word |-> 3, partial |-> 1],
                 [exact |-> 15, word |-> 5, partial |-> 2]}}

SearchStart ==
  /\ ClientInit /\ idb /\ ServerInit /\ HandlerInit /\ SessionInit
  /\ args \in SearchCalls /\ ret = NoCall

CallSearchAll ==
  /\ args.fn = "searchAll" /\ ret = NoCall
  /\ ret' = [value |-> searchAll(args.query, args.projectId, args.limit,
                                 args.snippets, args.knowledge)]
  /\ UNCHANGED <<args, handlerVars, sessionVars, routeVars, tableVars, clientVars>>

CallCalculateSearchScore ==
  /\ args.fn = "calculateSearchScore" /\ ret = NoCall
  /\ ret' = [value |-> calculateSearchScore(args.query, args.text, args.weights)]
  /\ UNCHANGED <<args, handlerVars, sessionVars, routeVars, tableVars, clientVars>>

SearchNext == CallSearchAll \/ CallCalculateSearchScore

SearchSpec == SearchStart /\ [][SearchNext]_vars

\* The searched items with a searchScore of at least 1, as (type, id, score).
Qualifying ==
  LET foundSnippets == SearchedRecords(args.snippets, args.projectId)
      foundKnowledge == SearchedRecords(args.knowledge, args.projectId)
  IN {[type |-> "snippet", id |-> foundSnippets[k].id,
       searchScore |-> SnippetScore(args.query, foundSnippets[k])] :
        k \in {j \in 1..Len(foundSnippets) : SnippetScore(args.query, foundSnippets[j]) >= 1}}
     \cup
     {[type |-> "knowledge", id |-> foundKnowledge[k].id,
       searchScore |-> KnowledgeScore(args.query, foundKnowledge[k])] :
        k \in {j \in 1..Len(foundKnowledge) :
                 KnowledgeScore(args.query, foundKnowledge[j]) >= 1}}

\* C30: searchAll returns the limit highest-scoring items among those with a
\* searchScore of at least 1 (all of them if they are fewer), each once, in
\* non-increasing order of score: cutting each type to limit before the merge
\* drops no item of the combined top limit.
SearchAllReturnsTop ==
  (args.fn = "searchAll" /\ ret # NoCall)
    => LET returned == Range(ret.value)
       IN /\ Len(ret.value) = IF Cardinality(Qualifying) < args.limit
                              THEN Cardinality(Qualifying) ELSE args.limit
          /\ Cardinality(returned) = Len(ret.value)
          /\ returned \subseteq Qualifying
          /\ \A k \in 1..(Len(ret.value) - 1) :
               ret.value[k].searchScore >= ret.value[k + 1].searchScore
          /\ \A item \in Qualifying \ returned, r \in returned :
               item.searchScore <= r.searchScore

\* Two snippets and two knowledge items qualify with different scores, the
\* limit is 1, and the one returned item is a knowledge item that their cut
\* list held behind the snippets.
SearchCutBothTypes ==
  /\ args.fn = "searchAll" /\ ret # NoCall
  /\ args.limit = 1
  /\ Cardinality({q \in Qualifying : q.type = "snippet"}) >= 2
  /\ Cardinality({q \in Qualifying : q.type = "knowledge"}) >= 2
  /\ Len(ret.value) = 1
  /\ ret.value[1].type = "knowledge"
  /\ \E q \in Qualifying : q.searchScore < ret.value[1].searchScore

\* C31: calculateSearchScore is monotone in the query: when the query is a
\* shorter query followed by extra words that are all words of the text, its
\* score is at least the score of the shorter query, for the same text and
\* weights.
SearchScoreMonotone ==
  (/\ args.fn = "calculateSearchScore" /\ ret # NoCall
   /\ \A k \in 1..Len(args.extra) :
        tokenizeForSearch(args.extra[k]) # <<>>
          /\ Range(tokenizeForSearch(args.extra[k])) \subseteq Range(tokenizeForSearch(args.text)))
    => ret.value >= calculateSearchScore(args.shorter, args.text, args.weights)


\* ---------------------------------------------------------------------------
\* The isSyncing guard seen by the callers of a sync cycle (storage.js,
\* part_003): args counts the sync requests made, ret holds what the last
\* request's processSyncQueue() and pullFromCloud() returned at their guards.

MaxSyncCalls == 2

\* What processSyncQueue and pullFromCloud return at the isSyncing check, or
\* NoCall for a call that goes on to its first await.
PsqGuard(syncing) ==
  IF syncing THEN [synced |-> 0, message |-> "Sync already in progress"] ELSE NoCall

PullGuard(syncing) ==
  IF syncing THEN [success |-> FALSE, message |-> "Sync already in progress"] ELSE NoCall

\* The client premium, logged in, its timer running, nothing stored.
SyncCallStart ==
  /\ idb \in BOOLEAN
  /\ settings = [isPremium |-> TRUE, cloudSyncEnabled |-> TRUE,
                 cloudAuthToken |-> TRUE, lastCloudPullAt |-> 0]
  /\ syncTimer = TRUE
  /\ isSyncing = FALSE
  /\ store = [i \in RecIds |-> NoRec]
  /\ syncQueue = {}
  /\ nextQid = 1
  /\ run = [p \in Procs |-> IdleRun]
  /\ writer = IdleWriter
  /\ writes = 0
  /\ failures = [q \in 1..MaxWrites |-> 0]
  /\ pushedOk = {}
  /\ authFailed = FALSE
  /\ sentAfter401 = FALSE
  /\ lastWrite = "none"
  /\ prevPull = <<>>
  /\ ServerInit /\ HandlerInit /\ SessionInit
  /\ args = [fn |-> "none", calls |-> 0]
  /\ ret = NoCall

\* handleForceSync, or the setInterval callback of startAutoSync after its two
\* settings reads: processSyncQueue() and then pullFromCloud(), up to the first
\* await that is not answered at once.
SyncCall(p) ==
  /\ run[p].pc = "idle"
  /\ p = "timer" => (syncTimer /\ settings.isPremium /\ settings.cloudSyncEnabled)
  /\ args.calls < MaxSyncCalls
  /\ args' = [fn |-> p, calls |-> args.calls + 1]
  /\ run' = [run EXCEPT ![p] = PsqEnter(isSyncing)]
  /\ ret' = [pushResult |-> PsqGuard(isSyncing),
             pullResult |-> IF run'[p].pc = "psq_wait" THEN NoCall ELSE PullGuard(isSyncing)]
  /\ UNCHANGED <<handlerVars, sessionVars, routeVars, tableVars>>
  /\ UNCHANGED <<idb, settings, syncTimer, isSyncing, store, syncQueue, nextQid, writer,
                 writes, history>>

SyncCallNext ==
  \/ \E id \in RecIds : SaveData(id)
  \/ QueueForSync
  \/ \E p \in Procs : SyncCall(p)
  \/ \E p \in Procs : PsqStart(p)
  \/ \E p \in Procs : PushOk(p)
  \/ \E p \in Procs : PushUnauthorized(p)
  \/ \E p \in Procs, resp \in {"fail", "error"} : PushFailed(p, resp)
  \/ \E p \in Procs : PullStart(p)
  \/ \E p \in Procs, resp \in {"http401", "fail", "error"} : PullFailed(p, resp)
  \/ \E p \in Procs : PullOk(p, <<>>, 0)

SyncCallSpec == SyncCallStart /\ [][SyncCallNext]_vars

\* C32: a sync request made while isSyncing is set has both its
\* processSyncQueue and its pullFromCloud return "Sync already in progress" in
\* the same step: its caller takes no position from which a request is sent,
\* and the sync queue, the store, the settings and the flag stay as they were.
RefusedWhileSyncing ==
  [][(isSyncing /\ args'.calls # args.calls)
       => /\ ret'.pushResult = [synced |-> 0, message |-> "Sync already in progress"]
          /\ ret'.pullResult = [success |-> FALSE, message |-> "Sync already in progress"]
          /\ run' = run
          /\ UNCHANGED <<syncQueue, store, settings, isSyncing, nextQid, sentAfter401>>]_vars

\* A request was refused while the other caller's cycle was waiting for the
\* answer to a push, with an entry queued.
RefusedDuringCycle ==
  /\ isSyncing
  /\ ret # NoCall
  /\ ret.pushResult = PsqGuard(TRUE) /\ ret.pullResult = PullGuard(TRUE)
  /\ \E p \in Procs : run[p].pc = "psq_fetch" /\ args.fn # p /\ run[args.fn].pc = "idle"
  /\ syncQueue # {}


\* ---------------------------------------------------------------------------
\* saveData step by step (storage.js): the calls of two message handlers on
\* one store, here localData.snippets, through IndexedDB or through the
\* chrome.storage.local fallback.

MaxSaves == 2

Writers == {"w1", "w2"}
WriteIds == {1, 2}

\* A call of saveData that is not running: data is its record, existing the
\* array its get callback was given and changed, calls the calls made so far.
IdleSave == [pc |-> "idle", data |-> [id |-> 0], existing |-> <<>>,
             result |-> "none", calls |-> 0]

SaveDataStart ==
  /\ ClientInit /\ ServerInit /\ CallInit /\ SessionInit
  /\ localData = NoLocal
  /\ handler = [w \in Writers |-> IdleSave]

\* What a step of saveData leaves alone besides the store and the sync queue.
saveFrame == <<handlerFrame, syncQueue, nextQid>>

\* saveData(storeName, data) up to "await initDB()".
SaveDataCall(w, id) ==
  /\ handler[w].pc \in {"idle", "settled"}
  /\ handler[w].calls < MaxSaves
  /\ handler' = [handler EXCEPT ![w] = [pc |-> "initDB", data |-> [id |-> id, by |-> w],
                                        existing |-> <<>>, result |-> "none",
                                        calls |-> @.calls + 1]]
  /\ UNCHANGED <<localData, saveFrame>>

\* existing[storeName] after the findIndex and the assignment or push
PutInArray(existing, data) ==
  IF \E k \in 1..Len(existing) : existing[k].id = data.id
  THEN [k \in 1..Len(existing) |-> IF existing[k].id = data.id THEN data ELSE existing[k]]
  ELSE Append(existing, data)

\* store.put(data) on an object store keyed by id
PutInStore(records, data) == PutInArray(records, data)

\* initDB has resolved.  With a database: the transaction and store.put(data)
\* of the record marked pending.  Without: chrome.storage.local.get is called.
SaveDataOpened(w) ==
  /\ handler[w].pc = "initDB"
  /\ IF idb
     THEN /\ localData' = [localData EXCEPT
                             !.snippets = PutInStore(@, [syncStatus |-> "pending"]
                                                          @@ handler[w].data)]
          /\ handler' = [handler EXCEPT ![w].pc = "put"]
     ELSE /\ handler' = [handler EXCEPT ![w].pc = "get"]
          /\ UNCHANGED localData
  /\ UNCHANGED saveFrame

\* request.onsuccess of the put: queueForSync(storeName, 'upsert', data) and
\* resolve(data).
SaveDataPutDone(w) ==
  /\ handler[w].pc = "put"
  /\ syncQueue' = QfsQueue(syncQueue, [op |-> "upsert", id |-> handler[w].data.id], nextQid,
                           settings, idb)
  /\ nextQid' = IF syncQueue' # syncQueue THEN nextQid + 1 ELSE nextQid
  /\ handler' = [handler EXCEPT ![w].pc = "settled", ![w].result = "resolved"]
  /\ UNCHANGED <<localData, handlerFrame>>

\* The callback of chrome.storage.local.get: result.devContextData as the
\* storage holds it now, the record put into existing[storeName], and
\* chrome.storage.local.set({ devContextData: existing }) called; or
\* chrome.runtime.lastError and the rejection.
StorageGot(w, lastError) ==
  /\ handler[w].pc = "get"
  /\ handler' = IF lastError
                THEN [handler EXCEPT ![w].pc = "settled", ![w].result = "rejected"]
                ELSE [handler EXCEPT ![w].pc = "set",
                                     ![w].existing = PutInArray(localData.snippets,
                                                                handler[w].data)]
  /\ UNCHANGED <<localData, saveFrame>>

\* The callback of chrome.storage.local.set: the storage holds the object that
\* was passed and resolve(data); or chrome.runtime.lastError, nothing written
\* and the rejection.
StorageSet(w, lastError) ==
  /\ handler[w].pc = "set"
  /\ IF lastError
     THEN /\ handler' = [handler EXCEPT ![w].pc = "settled", ![w].result = "rejected"]
          /\ UNCHANGED localData
     ELSE /\ handler' = [handler EXCEPT ![w].pc = "settled", ![w].result = "resolved"]
          /\ localData' = [localData EXCEPT !.snippets = handler[w].existing]
  /\ UNCHANGED saveFrame

SaveDataNext ==
  \/ \E w \in Writers, id \in WriteIds : SaveDataCall(w, id)
  \/ \E w \in Writers : SaveDataOpened(w)
  \/ \E w \in Writers : SaveDataPutDone(w)
  \/ \E w \in Writers, lastError \in BOOLEAN : StorageGot(w, lastError)
  \/ \E w \in Writers, lastError \in BOOLEAN : StorageSet(w, lastError)

SaveDataSpec == SaveDataStart /\ [][SaveDataNext]_vars

\* C33: when the last saveData calls of two handlers have both resolved and
\* their records have different ids, the store holds both records, with a
\* database and with the chrome.storage.local fallback.
BothSavesStored ==
  \A w, v \in Writers :
    (/\ w # v
     /\ handler[w].result = "resolved" /\ handler[v].result = "resolved"
     /\ handler[w].pc = "settled" /\ handler[v].pc = "settled"
     /\ handler[w].data.id # handler[v].data.id)
      => \A u \in {w, v} :
           \E k \in 1..Len(localData.snippets) :
             localData.snippets[k].id = handler[u].data.id


\* Every request that was sent is answered, or fetchWithTimeout aborts it and
\* throws: a caller that waits for an answer gets one.
Answered(p) ==
  \/ PushOk(p)
  \/ PushUnauthorized(p)
  \/ \E resp \in {"fail", "error"} : PushFailed(p, resp)
  \/ \E resp \in {"http401", "fail", "error"} : PullFailed(p, resp)
  \/ PullOk(p, <<>>, 0)

\* The sync requests of the timer and of FORCE_SYNC after the local writes
\* were made.
SyncLiveNext ==
  \/ args.calls = 0 /\ \E id \in RecIds : SaveData(id)
  \/ args.calls = 0 /\ QueueForSync
  \/ writer.pc = "idle" /\ \E p \in Procs : SyncCall(p)
  \/ \E p \in Procs : PsqStart(p)
  \/ \E p \in Procs : Answered(p)
  \/ \E p \in Procs : PullStart(p)

SyncLiveSpec ==
  SyncCallStart /\ [][SyncLiveNext]_vars /\ \A p \in Procs : WF_vars(Answered(p))

ServerReceivesInOrder ==
  [][\A q \in pushedOk' \ pushedOk : \A r \in pushedOk : r < q]_vars


\* C36: a record deleted with deleteById stays absent from the local store
\* through a pullFromCloud that runs while the delete is still queued: no step
\* of the pull's merge stores the record again.
DeletedStaysDeleted ==
  [][\A p \in Procs, id \in RecIds :
       (/\ run[p].pc = "pull_got" /\ run'[p] # run[p]
        /\ store[id] = NoRec
        /\ \E q \in syncQueue : q.operation = "delete" /\ q.dataId = id)
         => store'[id] = NoRec]_vars


\* ---------------------------------------------------------------------------
\* Two SAVE_SNIPPET messages of a free user at the snippet limit, handled at
\* the same time, checkLimits step by step (part_003).

\* "saveSnippetAgain" is a second SAVE_SNIPPET message handled while the first
\* is.
SnippetSavers == {"saveSnippet", "saveSnippetAgain"}

\* The active project p1 holds the 100 snippets of the limit and one more for
\* each of the grace grace saves used since: "let sum add map key" first, then
\* snippets of one character each, all different.
AtLimit(grace) ==
  LET n == SnippetLimit + grace
  IN [NoLocal EXCEPT
        !.projects = <<"p1", "p2">>,
        !.activeProjectId = "p1",
        !.snippets = [k \in 1..n |->
                        [id |-> k, projectId |-> "p1",
                         code |-> IF k = 1 THEN Text.five ELSE <<1000 + k>>,
                         createdAt |-> k]],
        !.grace = [snippets |-> grace, knowledge |-> 0],
        !.now = n]

LimitStart ==
  /\ ClientInit /\ ServerInit /\ CallInit /\ SessionInit
  /\ localData \in {AtLimit(grace) : grace \in (GraceSaves - 1)..GraceSaves}
  /\ handler = [h \in SnippetSavers |-> IdleHandler]

\* checkLimits up to the answer of getByIndex(itemType, 'projectId',
\* projectId): null for a premium user and below the warning threshold, the
\* warning when approaching the limit, else getSetting(graceSettingKey).
LimitsCount(h) ==
  /\ handler[h].pc = "limits"
  /\ LET count == Len(getByIndex(localData[StoreOf(h)], handler[h].projectId))
         limit == IF StoreOf(h) = "snippets" THEN SnippetLimit ELSE KnowledgeLimit
     IN handler' = [handler EXCEPT ![h] =
          IF settings.isPremium THEN [@ EXCEPT !.pc = "dup"]
          ELSE IF count >= limit THEN [@ EXCEPT !.pc = "grace"]
          ELSE IF count >= (limit * 8) \div 10
               THEN [@ EXCEPT !.pc = "dup", !.warning = "approaching"]
               ELSE [@ EXCEPT !.pc = "dup"]]
  /\ UNCHANGED <<localData, syncQueue, nextQid, handlerFrame>>

\* The answer of getSetting(graceSettingKey): limitReached and the handler's
\* return, or setSetting(graceSettingKey, graceSavesUsed + 1) is called.
LimitsGrace(h) ==
  /\ handler[h].pc = "grace"
  /\ LET graceSavesUsed == localData.grace[StoreOf(h)]
     IN handler' = [handler EXCEPT ![h] =
          IF graceSavesUsed >= GraceSaves
          THEN [@ EXCEPT !.pc = "returned",
                         !.result = [success |-> FALSE, limitReached |-> TRUE]]
          ELSE [@ EXCEPT !.pc = "consume", !.used = graceSavesUsed]]
  /\ UNCHANGED <<localData, syncQueue, nextQid, handlerFrame>>

\* "Consume a grace save": the setting is written and checkLimits returns the
\* grace_save warning.
LimitsConsume(h) ==
  /\ handler[h].pc = "consume"
  /\ localData' = [localData EXCEPT !.grace[StoreOf(h)] = handler[h].used + 1]
  /\ handler' = [handler EXCEPT ![h].pc = "dup", ![h].warning = "grace_save"]
  /\ UNCHANGED <<syncQueue, nextQid, handlerFrame>>

LimitNext ==
  \/ \E h \in SnippetSavers : \E data \in DataOf(h) : HandleSave(h, data)
  \/ \E h \in SnippetSavers : LimitsCount(h)
  \/ \E h \in SnippetSavers : LimitsGrace(h)
  \/ \E h \in SnippetSavers : LimitsConsume(h)
  \/ \E h \in SnippetSavers : SaveDuplicateCheck(h)
  \/ \E h \in SnippetSavers : SaveDuplicateFound(h)
  \/ \E h \in SnippetSavers : SaveStore(h)
  \/ \E h \in SnippetSavers : SaveReturn(h)

LimitSpec == LimitStart /\ [][LimitNext]_vars

\* C37: whatever the interleaving of the handleSaveSnippet calls, no project
\* holds two snippets whose normalized code is equal.
NoEqualSnippets ==
  \A projectId \in {"p1", "p2"} :
    LET held == getByIndex(localData.snippets, projectId)
    IN Cardinality({normalizeContent(held[k].code) : k \in 1..Len(held)}) = Len(held)

\* C38: for a free user the saves accepted while the active project holds
\* SnippetLimit snippets or more are at most GraceSaves: the project, which
\* held SnippetLimit snippets when the first grace save was used and from
\* which nothing is deleted, never holds more than SnippetLimit + GraceSaves.
GraceSavesBounded ==
  ~settings.isPremium
    => Len(getByIndex(localData.snippets, "p1")) <= SnippetLimit + GraceSaves

\* C39: a request that is rejected as a duplicate has consumed no grace save:
\* it returns its duplicate result without the grace_save warning of
\* checkLimits.
DuplicateKeepsGrace ==
  \A h \in SnippetSavers :
    (handler[h].pc = "returned" /\ "isDuplicate" \in DOMAIN handler[h].result)
      => handler[h].warning # "grace_save"


\* ---------------------------------------------------------------------------
\* The project handlers (part_003): CREATE_PROJECT, SET_ACTIVE_PROJECT and
\* DELETE_PROJECT handled at the same time.

ProjectLimit == 5

ProjectHandlers == {"createProject", "setActiveProject", "deleteProject"}

\* The ids of the projects created, in the order of their creation.
CreatedIds == <<"p3", "p4", "p5", "p6">>

\* handleCreateProject up to the answer of getAllData('projects'): the free
\* limit, or the project is built and saveData('projects', project) called.
HandleCreateProject ==
  /\ handler["createProject"].pc \in {"idle", "returned"}
  /\ Calls < MaxCalls
  /\ handler' = [handler EXCEPT !["createProject"] =
       IF ~settings.isPremium /\ Len(localData.projects) >= ProjectLimit
       THEN [IdleHandler EXCEPT !.pc = "returned", !.calls = handler["createProject"].calls + 1]
       ELSE [IdleHandler EXCEPT !.pc = "save", !.calls = handler["createProject"].calls + 1,
                                !.projectId = CreatedIds[handler["createProject"].calls + 1]]]
  /\ UNCHANGED <<localData, syncQueue, nextQid, handlerFrame>>

\* saveData('projects', project): the put and, with a database, queueForSync;
\* then getSetting('activeProjectId') is called.
CreateSave ==
  /\ handler["createProject"].pc = "save"
  /\ localData' = [localData EXCEPT !.projects = Append(@, handler["createProject"].projectId)]
  /\ syncQueue' = QfsQueue(syncQueue,
                           [op |-> "upsert", id |-> handler["createProject"].projectId],
                           nextQid, settings, idb)
  /\ nextQid' = IF syncQueue' # syncQueue THEN nextQid + 1 ELSE nextQid
  /\ handler' = [handler EXCEPT !["createProject"].pc = "active"]
  /\ UNCHANGED handlerFrame

\* "Set as active if it's the first project": the answer of getSetting, then
\* the return or setSetting('activeProjectId', project.id).
CreateReadActive ==
  /\ handler["createProject"].pc = "active"
  /\ handler' = [handler EXCEPT !["createProject"] =
       IF localData.activeProjectId = "none"
       THEN [@ EXCEPT !.pc = "set_active"]
       ELSE [@ EXCEPT !.pc = "returned", !.result = [success |-> TRUE]]]
  /\ UNCHANGED <<localData, syncQueue, nextQid, handlerFrame>>

CreateSetActive ==
  /\ handler["createProject"].pc = "set_active"
  /\ localData' = [localData EXCEPT !.activeProjectId = handler["createProject"].projectId]
  /\ handler' = [handler EXCEPT !["createProject"].pc = "returned",
                                !["createProject"].result = [success |-> TRUE]]
  /\ UNCHANGED <<syncQueue, nextQid, handlerFrame>>

\* handleSetActiveProject(projectId) up to the answer of
\* getById('projects', projectId): 'Project not found', or setSetting is
\* called.
HandleSetActiveProject(projectId) ==
  /\ handler["setActiveProject"].pc \in {"idle", "returned"}
  /\ Calls < MaxCalls
  /\ handler' = [handler EXCEPT !["setActiveProject"] =
       IF \E k \in 1..Len(localData.projects) : localData.projects[k] = projectId
       THEN [IdleHandler EXCEPT !.pc = "set_active", !.projectId = projectId,
                                !.calls = handler["setActiveProject"].calls + 1]
       ELSE [IdleHandler EXCEPT !.pc = "returned", !.projectId = projectId,
                                !.calls = handler["setActiveProject"].calls + 1,
                                !.result = [success |-> FALSE, error |-> "Project not found"]]]
  /\ UNCHANGED <<localData, syncQueue, nextQid, handlerFrame>>

\* setSetting('activeProjectId', projectId) and the return.
SetActiveProject ==
  /\ handler["setActiveProject"].pc = "set_active"
  /\ localData' = [localData EXCEPT !.activeProjectId = handler["setActiveProject"].projectId]
  /\ handler' = [handler EXCEPT !["setActiveProject"].pc = "returned",
                                !["setActiveProject"].result = [success |-> TRUE]]
  /\ UNCHANGED <<syncQueue, nextQid, handlerFrame>>

ProjectNext ==
  \/ HandleCreateProject
  \/ CreateSave
  \/ CreateReadActive
  \/ CreateSetActive
  \/ \E projectId \in {"p1", "p2", "p3"} : HandleSetActiveProject(projectId)
  \/ SetActiveProject
  \/ \E projectId \in {"p1", "p2"} : HandleDeleteProject(projectId)
  \/ DeleteSnippet
  \/ DeleteListKnowledge
  \/ DeleteKnowledge
  \/ DeleteProjectRow
  \/ DeleteReadActive
  \/ DeleteFixActive

\* A fresh installation, or two projects of which one is active.
ProjectStart ==
  /\ UserStart
  /\ localData \in {NoLocal, StartLocal, [StartLocal EXCEPT !.activeProjectId = "p2"]}
  /\ handler = [h \in ProjectHandlers |-> IdleHandler]

ProjectSpec == ProjectStart /\ [][ProjectNext]_vars

\* C40: whenever no project handler is running, the activeProjectId setting
\* is null or the id of a project in the local projects store.
ActiveProjectExists ==
  (\A h \in ProjectHandlers :
     handler[h].pc \in {"idle", "returned"})
    => \/ localData.activeProjectId = "none"
       \/ \E k \in 1..Len(localData.projects) :
            localData.projects[k] = localData.activeProjectId

====
